---- MODULE Spec2Model ----
(***************************************************************************)
(* Model of the Taiga <-> Telegram bridge: the link Store                  *)
(* (internal/storage/storage.go), the notification reconciler              *)
(* pollNotifications (main.go) and the front-end handlers that mutate the  *)
(* Store concurrently with it.                                             *)
(*                                                                         *)
(* Spec        one run of the process: reconciler, remote edits, front end *)
(* SpecRestart the same with the process stopped and started again         *)
(* SpecStore   the Store's methods on their own, with failures of persist  *)
(*             and kills of the process inside it                          *)
(* SpecIndex   the mapping table and the username index of the Store, with *)
(*             ids and handles of every shape                              *)
(* SpecList    a caller of Store.List that writes into the links it holds  *)
(* SpecLegacy  the Store started on a file of the legacy layout            *)
(* SpecClient  the calls of the Taiga client (internal/taiga/client.go)    *)
(* SpecAdmin   the commands of project admins and what they do to the Store*)
(* SpecMemberships  Client.ListMemberships against a remote double         *)
(* SpecSplit   splitMessage on texts of every shape                        *)
(* SpecWizard  the item-creation wizard with concurrent text handlers      *)
(***************************************************************************)
EXTENDS Integers, Sequences, FiniteSets, Bags, TLC

\* ------------------------------------------------------------------ bounds
NumUsers == 2
NumProjects == 2
NumItems == 2
MaxTicks == 2
\* remote edits, front-end commands, failures and the cancellation, in total
MaxEvents == 2
\* calls made on the Store's API when the Store is exercised on its own
MaxCalls == 2
\* goroutines that handle a text message at the same time
MaxHandlers == 2
\* updates with an admin command the bot handles
MaxUpdates == 2
\* characters of a text given to splitMessage
MaxText == 5
\* wizard states put into newWizard
MaxSessions == 2

\* ------------------------------------------------------------- value sets
Users == 1..NumUsers
Projects == 1..NumProjects
Items == 1..NumItems
StatusNames == {"New", "Done"}
Subjects == {"a", "b"}
Refs == {1, 2}
\* an optional (*int64) value: nil is the empty sequence, &v is <<v>>
Nil == <<>>
Ptr(v) == <<v>>
\* a chat that is no user's private chat
GroupChat == NumUsers + 1

\* the project an item belongs to on the remote side
ProjectOf(i) == ((i - 1) % NumProjects) + 1
\* GetMe: the Taiga identity the token of telegram user u resolves to
TaigaUserOf(u) == u

EmptyMap == [i \in {} |-> i]

\* ------------------------------------------------------------------ state
VARIABLES
    links,       \* Store.links: telegram id -> UserLink
    mappings,    \* Store.projectUserMappings: project -> telegram id -> taiga id
    usernames,   \* Store.telegramUsernames: handle -> telegram id
    disk,        \* the files at s.path ("path") and s.path + ".tmp" ("tmp")
    calls,       \* the calls made on the Store's API so far, with their results
    stories,     \* the remote service: item id -> user story
    baseURLOK,   \* whether url.Parse accepts the configured base URL
    cancelled,   \* ctx.Done() is closed
    pc,          \* position of the pollNotifications goroutine
    snap,        \* links := store.List()
    todo,        \* users of snap the range loop has not reached yet
    link,        \* the loop variable: the snapshot link being processed
    allStories,  \* allStories of the current user cycle
    projIdx,     \* index of the range over link.WatchedProjects
    newDigests,  \* newDigests of the current user cycle
    emitted,     \* bag of the SendMessage calls of the current user cycle
    delivered,   \* sub-bag of emitted the transport accepted
    fetchLog,    \* the ListUserStories calls of the current user cycle
    visited,     \* users the range loop reached in the current tick
    updated,     \* users UpdateTaskState was called for in the current tick
    hist,        \* per user: observation and stored map of its last cycle
    prev,        \* hist of the current user as it was before this cycle
    wrote,       \* outcome of the UpdateTaskState call of this cycle
    ticks,       \* ticks begun so far
    events,      \* environment events so far
    listed,      \* the links a caller of Store.List holds: telegram id -> link
    shared,      \* <<telegram id, field>>: the field of the listed link and
                 \* that of the Store's link are one map or one array
    clientCalls, \* the calls of Client.do so far, with their requests
    handled,     \* the updates with an admin command handled so far
    split,       \* a call of splitMessage: its arguments and its result
    newWizard,   \* newWizard: telegram id -> newWizardState
    textHandlers, \* the goroutines that handle a text message
    createdStories, \* the CreateUserStory calls that succeeded
    wizardSeq    \* number of wizard states set to await a text so far

vars == <<links, mappings, usernames, disk, calls, stories, baseURLOK, cancelled, pc, snap, todo, link,
          allStories, projIdx, newDigests, emitted, delivered, fetchLog,
          visited, updated, hist, prev, wrote, ticks, events, listed, shared,
          clientCalls, handled, split, newWizard, textHandlers,
          createdStories, wizardSeq>>

storeVars == <<links, mappings, usernames, disk>>
cycleVars == <<link, allStories, projIdx, newDigests, emitted, delivered,
               fetchLog, prev, wrote>>
tickVars == <<snap, todo, visited, updated>>
listVars == <<listed, shared>>
wizardVars == <<newWizard, textHandlers, createdStories, wizardSeq>>
uiVars == <<handled, split, wizardVars>>
auxVars == <<listVars, clientCalls, uiVars>>

\* ------------------------------------------------------------ data model
\* UserLink as /link builds it: LastTaskStates is left nil. A map-valued
\* field is Nil or Ptr(map), since a nil map and an empty map differ
NewLink(u, t) ==
    [TelegramID |-> u, TaigaUserID |-> t, NotifyChatID |-> Nil,
     WatchedProjects |-> <<>>, LastTaskStates |-> Nil]

ZeroLink == NewLink(0, 0)

NoHist == [valid |-> FALSE, obs |-> EmptyMap, stored |-> EmptyMap,
           failed |-> FALSE]
NoWrite == [called |-> FALSE, ok |-> FALSE, err |-> FALSE, m |-> EmptyMap,
            before |-> EmptyMap]

\* the UserStory the client decodes for remote item i
UserStory(i) ==
    [ID |-> i, Ref |-> stories[i].Ref, Subject |-> stories[i].Subject,
     StatusExtraInfo |-> [Name |-> stories[i].Status],
     AssignedTo |-> stories[i].AssignedTo]

\* ListUserStories: the stories the remote returns for the filter
ListUserStories(projectID, assignedTo) ==
    LET match(i) == /\ (projectID # 0 => stories[i].Project = projectID)
                    /\ (assignedTo # Nil => stories[i].AssignedTo = assignedTo)
        ids == {i \in Items : match(i)}
    IN  [i \in ids |-> UserStory(i)]

\* for _, us := range fetched { allStories[us.ID] = us }
MergeStories(all, fetched) ==
    [i \in DOMAIN all \cup DOMAIN fetched |->
        IF i \in DOMAIN fetched THEN fetched[i] ELSE all[i]]

\* mutant: the subject takes part in the digest
DigestWithSubject(us) ==
    [Status |-> <<us.StatusExtraInfo.Name, us.Subject>>,
     AssignedTo |-> IF us.AssignedTo = Nil THEN 0 ELSE us.AssignedTo[1]]

\* storage.TaskDigest of a story
Digest(us) ==
    [Status |-> us.StatusExtraInfo.Name,
     AssignedTo |-> IF us.AssignedTo = Nil THEN 0 ELSE us.AssignedTo[1]]

\* mutant: an unassigned story gets no digest
NewDigestsSkipUnassigned(all) ==
    [i \in {j \in DOMAIN all : all[j].AssignedTo # Nil} |-> Digest(all[i])]

NewDigests(all) == [i \in DOMAIN all |-> Digest(all[i])]

\* last := link.LastTaskStates; if last == nil { last = make(...) }
Last(l) == IF l.LastTaskStates = Nil THEN EmptyMap ELSE l.LastTaskStates[1]
\* mutant: every cycle is a baseline cycle
BaselineAlways(l) == TRUE
\* baselineOnly := len(last) == 0
BaselineOnly(l) == DOMAIN Last(l) = {}
\* mutant: the notify chat of the link is not looked at
DestinationOwn(l) == l.TelegramID
\* destinationChatID
Destination(l) ==
    IF l.NotifyChatID # Nil THEN l.NotifyChatID[1] ELSE l.TelegramID

StatusMsg(dest, us, old, new) ==
    [chat |-> dest, item |-> us.ID, kind |-> "status",
     args |-> <<us.Ref, us.Subject, old, new>>]
AssigneeMsg(dest, us) ==
    [chat |-> dest, item |-> us.ID, kind |-> "assignee",
     args |-> <<us.Ref, us.Subject>>]

\* mutant: no continue after the status message
NotifyBoth(last, baselineOnly, us, dest) ==
    LET digest == Digest(us)
    IN  IF baselineOnly THEN EmptyBag
        ELSE IF us.ID \notin DOMAIN last THEN EmptyBag
        ELSE (IF last[us.ID].Status # digest.Status
              THEN SetToBag({StatusMsg(dest, us, last[us.ID].Status, digest.Status)})
              ELSE EmptyBag)
             (+)
             (IF last[us.ID].AssignedTo # digest.AssignedTo
              THEN SetToBag({AssigneeMsg(dest, us)})
              ELSE EmptyBag)

\* mutant: an assignee of 0 on either side is not compared
NotifyAssigneeNonZero(last, baselineOnly, us, dest) ==
    LET digest == Digest(us)
    IN  IF baselineOnly THEN EmptyBag
        ELSE IF us.ID \notin DOMAIN last THEN EmptyBag
        ELSE IF last[us.ID].Status # digest.Status
             THEN SetToBag({StatusMsg(dest, us, last[us.ID].Status, digest.Status)})
        ELSE IF /\ last[us.ID].AssignedTo # 0
                /\ digest.AssignedTo # 0
                /\ last[us.ID].AssignedTo # digest.AssignedTo
             THEN SetToBag({AssigneeMsg(dest, us)})
        ELSE EmptyBag

\* mutant: the status message is sent without comparing the statuses
NotifyAlways(last, baselineOnly, us, dest) ==
    LET digest == Digest(us)
    IN  IF baselineOnly THEN EmptyBag
        ELSE IF us.ID \notin DOMAIN last THEN EmptyBag
        ELSE SetToBag({StatusMsg(dest, us, last[us.ID].Status, digest.Status)})

\* mutant: the lookup result is used without its ok flag, so a missing key
\* reads as the zero TaskDigest
NotifyZeroValue(last, baselineOnly, us, dest) ==
    LET digest == Digest(us)
        old == IF us.ID \in DOMAIN last THEN last[us.ID]
               ELSE [Status |-> "", AssignedTo |-> 0]
    IN  IF baselineOnly THEN EmptyBag
        ELSE IF old.Status # digest.Status
             THEN SetToBag({StatusMsg(dest, us, old.Status, digest.Status)})
        ELSE IF old.AssignedTo # digest.AssignedTo
             THEN SetToBag({AssigneeMsg(dest, us)})
        ELSE EmptyBag

\* body of the range over allStories for one story: the messages it sends
Notify(last, baselineOnly, us, dest) ==
    LET digest == Digest(us)
    IN  IF baselineOnly THEN EmptyBag
        ELSE IF us.ID \notin DOMAIN last THEN EmptyBag
        ELSE IF last[us.ID].Status # digest.Status
             THEN SetToBag({StatusMsg(dest, us, last[us.ID].Status, digest.Status)})
        ELSE IF last[us.ID].AssignedTo # digest.AssignedTo
             THEN SetToBag({AssigneeMsg(dest, us)})
        ELSE EmptyBag

RECURSIVE NotifyAll(_, _, _, _, _)
NotifyAll(ids, last, baselineOnly, all, dest) ==
    IF ids = {} THEN EmptyBag
    ELSE LET i == CHOOSE x \in ids : TRUE
         IN  Notify(last, baselineOnly, all[i], dest)
             (+) NotifyAll(ids \ {i}, last, baselineOnly, all, dest)

\* ------------------------------------------------------------ fault budget
\* a call may fail while the event budget lasts
Outcomes == IF events < MaxEvents THEN {TRUE, FALSE} ELSE {TRUE}
Spend(ok) == events' = events + (IF ok THEN 0 ELSE 1)
\* the step of persist that returns an error, if any
PersistErrors == {"create", "encode", "close", "rename"}
\* the point of persist at which the process is killed, if it is
CrashPoints == {"crash_created", "crash_partial", "crash_written",
                "crash_renamed"}
PersistOutcomes ==
    IF events < MaxEvents THEN {"ok"} \cup PersistErrors ELSE {"ok"}
SpendPersist(o) == events' = events + (IF o = "ok" THEN 0 ELSE 1)
\* a front-end command is an event, and its persist may fail on top of it
OpPersistOutcomes ==
    IF events + 1 < MaxEvents THEN {"ok"} \cup PersistErrors ELSE {"ok"}
SpendOpPersist(o) == events' = events + (IF o = "ok" THEN 1 ELSE 2)

\* ---------------------------------------------------- the Store's tables
\* the three tables of the Store in memory
Mem == [links |-> links, mappings |-> mappings, usernames |-> usernames]
\* the Store New builds before it loads
EmptyStore ==
    [links |-> EmptyMap, mappings |-> EmptyMap, usernames |-> EmptyMap]

\* link, ok := s.links[telegramID]: a missing key reads as the zero value
LinkAt(table, telegramID) ==
    IF telegramID \in DOMAIN table THEN table[telegramID] ELSE ZeroLink
\* s.links[telegramID] = link
PutLink(table, telegramID, l) ==
    [x \in DOMAIN table \cup {telegramID} |->
        IF x = telegramID THEN l ELSE table[x]]

\* mutant: the lookup's ok flag is not looked at
NotFoundNever(table, telegramID) == FALSE

\* the !ok of link, ok := s.links[telegramID] in the per-link mutators
NotFound(table, telegramID) == telegramID \notin DOMAIN table

\* Store.Save: a nil digest map becomes an empty one, the link is put
LinksSave(table, l) ==
    PutLink(table, l.TelegramID,
            IF l.LastTaskStates = Nil
            THEN [l EXCEPT !.LastTaskStates = Ptr(EmptyMap)]
            ELSE l)

\* mutant: the link table is made anew
LinksDeleteAll(table, telegramID) == EmptyMap

\* Store.Delete: delete(s.links, telegramID)
LinksDelete(table, telegramID) ==
    [x \in DOMAIN table \ {telegramID} |-> table[x]]

\* mutant: the new digests are merged into the stored map
UpdateTaskStateMerge(table, telegramID, digests) ==
    IF NotFound(table, telegramID)
    THEN table
    ELSE LET old == Last(LinkAt(table, telegramID))
         IN  PutLink(table, telegramID,
                     [LinkAt(table, telegramID) EXCEPT
                         !.LastTaskStates =
                             Ptr([i \in DOMAIN old \cup DOMAIN digests |->
                                     IF i \in DOMAIN digests THEN digests[i]
                                     ELSE old[i]])])

\* mutant: the link of the List snapshot is written back with the digests
UpdateTaskStateSnapshot(table, telegramID, digests) ==
    IF telegramID \notin DOMAIN table THEN table
    ELSE PutLink(table, telegramID,
                 [link EXCEPT !.LastTaskStates = Ptr(digests)])

\* Store.UpdateTaskState: the new link table, or the table unchanged when
\* the user has no link (the call then returns an error)
UpdateTaskState(table, telegramID, digests) ==
    IF NotFound(table, telegramID)
    THEN table
    ELSE PutLink(table, telegramID,
                 [LinkAt(table, telegramID) EXCEPT
                     !.LastTaskStates = Ptr(digests)])

\* Store.SetNotifyChat past its lookup
LinksSetNotifyChat(table, telegramID, chatID) ==
    PutLink(table, telegramID,
            [LinkAt(table, telegramID) EXCEPT !.NotifyChatID = chatID])

InSeq(s, x) == \E k \in 1..Len(s) : s[k] = x

\* mutant: the project is appended without looking for it in the list
LinksAddWatchedProjectAppend(table, telegramID, projectID) ==
    PutLink(table, telegramID,
            [LinkAt(table, telegramID) EXCEPT
                !.WatchedProjects = Append(@, projectID)])

\* Store.AddWatchedProject past its lookup
LinksAddWatchedProject(table, telegramID, projectID) ==
    LET l == LinkAt(table, telegramID)
    IN  IF InSeq(l.WatchedProjects, projectID)
        THEN PutLink(table, telegramID, l)
        ELSE PutLink(table, telegramID,
                     [l EXCEPT !.WatchedProjects = Append(@, projectID)])

\* Store.RemoveWatchedProject past its lookup
LinksRemoveWatchedProject(table, telegramID, projectID) ==
    PutLink(table, telegramID,
            [LinkAt(table, telegramID) EXCEPT
                !.WatchedProjects = SelectSeq(@, LAMBDA e : e # projectID)])

\* Store.SetProjectUserMapping past its validation
MappingsSet(table, projectID, telegramID, taigaUserID) ==
    LET bucket == IF projectID \in DOMAIN table THEN table[projectID]
                  ELSE EmptyMap
    IN  [p \in DOMAIN table \cup {projectID} |->
            IF p = projectID
            THEN [u \in DOMAIN bucket \cup {telegramID} |->
                     IF u = telegramID THEN taigaUserID ELSE bucket[u]]
            ELSE table[p]]

\* SetProjectUserMapping: the checks before it changes anything
SetMappingInvalid(projectID, telegramID, taigaUserID) ==
    projectID <= 0 \/ telegramID = 0 \/ taigaUserID <= 0

\* RemoveProjectUserMapping: the checks before it changes anything
RemoveMappingInvalid(projectID, telegramID) ==
    projectID <= 0 \/ telegramID = 0

\* RemoveProjectUserMapping: s.projectUserMappings[projectID] == nil
BucketMissing(table, projectID) == projectID \notin DOMAIN table

\* mutant: the bucket is kept when its last entry goes
MappingsRemoveKeepBucket(table, projectID, telegramID) ==
    [table EXCEPT ![projectID] =
        [u \in DOMAIN table[projectID] \ {telegramID} |->
            table[projectID][u]]]

\* RemoveProjectUserMapping past its checks: the entry is deleted, and the
\* bucket with it when it is left empty
MappingsRemove(table, projectID, telegramID) ==
    LET bucket == [u \in DOMAIN table[projectID] \ {telegramID} |->
                      table[projectID][u]]
    IN  IF DOMAIN bucket = {}
        THEN [p \in DOMAIN table \ {projectID} |-> table[p]]
        ELSE [table EXCEPT ![projectID] = bucket]

\* Store.GetProjectUserMapping: (taigaUserID, ok) as Ptr(taigaUserID) or Nil
GetProjectUserMapping(table, projectID, telegramID) ==
    IF projectID \notin DOMAIN table THEN Nil
    ELSE IF telegramID \notin DOMAIN table[projectID] THEN Nil
    ELSE Ptr(table[projectID][telegramID])

\* Store.ListProjectUserMappings: a copy of the bucket, empty when missing
ListProjectUserMappings(table, projectID) ==
    IF projectID \notin DOMAIN table THEN EmptyMap
    ELSE [u \in DOMAIN table[projectID] |-> table[projectID][u]]

\* a handle is the sequence of its characters
\* unicode.IsSpace of the characters in use
IsSpace(c) == c \in {" ", "\n"}
RECURSIVE TrimLeft(_)
TrimLeft(s) ==
    IF Len(s) > 0 /\ IsSpace(Head(s)) THEN TrimLeft(Tail(s)) ELSE s
RECURSIVE TrimRight(_)
TrimRight(s) ==
    IF Len(s) > 0 /\ IsSpace(s[Len(s)])
    THEN TrimRight(SubSeq(s, 1, Len(s) - 1))
    ELSE s
\* strings.TrimSpace
TrimSpace(s) == TrimRight(TrimLeft(s))
\* strings.TrimPrefix(s, "@")
TrimPrefixAt(s) == IF Len(s) > 0 /\ Head(s) = "@" THEN Tail(s) ELSE s
LowerChar(c) == IF c = "A" THEN "a" ELSE c
\* strings.ToLower
ToLower(s) == [k \in 1..Len(s) |-> LowerChar(s[k])]

\* the key UpsertTelegramUsername and ResolveTelegramHandle make of a handle
HandleKey(handle) == ToLower(TrimPrefixAt(TrimSpace(handle)))

\* UpsertTelegramUsername: the return before the lock is taken
UpsertSkipped(username, telegramID) ==
    TrimSpace(username) = <<>> \/ telegramID = 0

\* mutant: the write is never skipped
UsernameKnownNever(table, username, telegramID) == FALSE

\* Store.UpsertTelegramUsername: whether the key already maps to the id
UsernameKnown(table, username, telegramID) ==
    username \in DOMAIN table /\ table[username] = telegramID

\* mutant: the index is replaced by the new entry
UsernamesUpsertOnly(table, username, telegramID) ==
    [h \in {username} |-> telegramID]

\* s.telegramUsernames[username] = telegramID
UsernamesUpsert(table, username, telegramID) ==
    [h \in DOMAIN table \cup {username} |->
        IF h = username THEN telegramID ELSE table[h]]

\* Store.ResolveTelegramHandle: (id, ok) as Ptr(id) or Nil
ResolveTelegramHandle(table, handle) ==
    IF TrimSpace(handle) = <<>> THEN Nil
    ELSE IF HandleKey(handle) \notin DOMAIN table THEN Nil
    ELSE Ptr(table[HandleKey(handle)])

\* ------------------------------------------------------------ the files
\* the top-level JSON object of a file: the three keys a diskData has, each
\* Nil when the key is missing or null, and under by_id the object read as
\* a map of telegram id to link when all of its keys are numbers, else Nil
NoData ==
    [links |-> Nil, project_user_mappings |-> Nil, telegram_usernames |-> Nil,
     by_id |-> Nil]
NoFile == [state |-> "absent", data |-> NoData]
\* a file just created or truncated by os.Create
Truncated == [state |-> "empty", data |-> NoData]
\* a file holding a prefix of an encoding
Partial == [state |-> "partial", data |-> NoData]
\* a file holding a whole encoding
Written(data) == [state |-> "complete", data |-> data]

\* a UserLink as encoding/json writes it: omitempty drops a nil chat id and
\* an empty project list, a nil digest map is written as null
jsonLink(l) ==
    [telegram_id |-> l.TelegramID, taiga_user_id |-> l.TaigaUserID,
     notify_chat_id |-> l.NotifyChatID,
     watched_projects |-> IF Len(l.WatchedProjects) = 0 THEN Nil
                          ELSE Ptr(l.WatchedProjects),
     last_task_states |-> l.LastTaskStates]

\* a UserLink as encoding/json reads it: a missing field keeps its zero value
linkOfJSON(j) ==
    [TelegramID |-> j.telegram_id, TaigaUserID |-> j.taiga_user_id,
     NotifyChatID |-> j.notify_chat_id,
     WatchedProjects |-> IF j.watched_projects = Nil THEN <<>>
                         ELSE j.watched_projects[1],
     LastTaskStates |-> j.last_task_states]

\* mutant: only the links are written
EncodeLinksOnly(mem) ==
    [links |-> Ptr([u \in DOMAIN mem.links |-> jsonLink(mem.links[u])]),
     project_user_mappings |-> Nil,
     telegram_usernames |-> Nil,
     by_id |-> Nil]

\* the diskData persist encodes: empty mappings and usernames are left out
Encode(mem) ==
    [links |-> Ptr([u \in DOMAIN mem.links |-> jsonLink(mem.links[u])]),
     project_user_mappings |->
        IF DOMAIN mem.mappings = {} THEN Nil ELSE Ptr(mem.mappings),
     telegram_usernames |->
        IF DOMAIN mem.usernames = {} THEN Nil ELSE Ptr(mem.usernames),
     by_id |-> Nil]

\* mutant: persist writes the durable file in place
tmpFileIsPath == "path"

\* tmpFile := s.path + ".tmp"
tmpFile == "tmp"

\* how far persist gets: "none" (os.Create failed), "created", "partial"
\* (the encoding was cut short, or Close could not flush it), "written"
\* (encoded and closed), "renamed"
Stage(o) ==
    CASE o = "ok" -> "renamed"
      [] o = "create" -> "none"
      [] o = "encode" -> "partial"
      [] o = "close" -> "partial"
      [] o = "rename" -> "written"
      [] o = "crash_created" -> "created"
      [] o = "crash_partial" -> "partial"
      [] o = "crash_written" -> "written"
      [] o = "crash_renamed" -> "renamed"

\* the files after persist got as far as stage with data
FilesAfter(fs, data, stage) ==
    LET created == [fs EXCEPT ![tmpFile] = Truncated]
        partial == [fs EXCEPT ![tmpFile] = Partial]
        written == [fs EXCEPT ![tmpFile] = Written(data)]
    IN  CASE stage = "none" -> fs
          [] stage = "created" -> created
          [] stage = "partial" -> partial
          [] stage = "written" -> written
          [] stage = "renamed" ->
                IF tmpFile = "path" THEN written
                ELSE [written EXCEPT !.path = written[tmpFile],
                                     ![tmpFile] = NoFile]

\* Store.persist of the tables mem, with outcome o
persist(mem, o) == disk' = FilesAfter(disk, Encode(mem), Stage(o))

\* mutant: a file without the key "links" is not read
loadLegacyFails(data) == [ok |-> FALSE, mem |-> EmptyStore]

\* Store.load, the second decoding: the object as a plain map of links; it
\* fails on a key that is not a number
loadLegacy(data) ==
    IF data.by_id = Nil THEN [ok |-> FALSE, mem |-> EmptyStore]
    ELSE [ok |-> TRUE,
          mem |-> [links |-> [u \in DOMAIN data.by_id[1] |->
                                 linkOfJSON(data.by_id[1][u])],
                   mappings |-> EmptyMap,
                   usernames |-> EmptyMap]]

\* Store.load: whether it succeeds, and the tables it leaves in the Store.
\* The first decoding, as a diskData, is taken when it yields links
load(file) ==
    IF file.state = "absent" THEN [ok |-> TRUE, mem |-> EmptyStore]
    ELSE IF file.state # "complete" THEN [ok |-> FALSE, mem |-> EmptyStore]
    ELSE LET dd == file.data
         IN  IF dd.links # Nil
             THEN [ok |-> TRUE,
                   mem |-> [links |-> [u \in DOMAIN dd.links[1] |->
                                          linkOfJSON(dd.links[1][u])],
                            mappings |->
                               IF dd.project_user_mappings # Nil
                               THEN dd.project_user_mappings[1]
                               ELSE EmptyMap,
                            usernames |->
                               IF dd.telegram_usernames # Nil
                               THEN dd.telegram_usernames[1]
                               ELSE EmptyMap]]
             ELSE loadLegacy(dd)

\* ------------------------------------------------------------------- Init
\* the Store as loaded at start: every user linked, user 1 watching every
\* project; on the remote side item 1 is assigned to user 1
InitWatched(u) == IF u = 1 THEN [p \in 1..NumProjects |-> p] ELSE <<>>
InitAssignee(i) == IF i = 1 THEN Ptr(TaigaUserOf(1)) ELSE Nil

\* the remote side and the process just after start
\* no call of splitMessage yet
NoSplit ==
    [text |-> <<>>, limit |-> 0, called |-> FALSE, parts |-> <<>>,
     cuts |-> <<>>]
\* the goroutines the bot handler runs for text messages
TextHandlers == 1..MaxHandlers
\* a goroutine that handles no message
IdleHandler ==
    [pc |-> "idle", from |-> 0, state |-> Nil, text |-> Nil, reply |-> "none"]

InitFields ==
    /\ calls = <<>>
    /\ stories = [i \in Items |->
                    [Project |-> ProjectOf(i), Ref |-> 1, Subject |-> "a",
                     Status |-> "New", AssignedTo |-> InitAssignee(i)]]
    /\ cancelled = FALSE
    /\ snap = EmptyMap
    /\ todo = {}
    /\ link = ZeroLink
    /\ allStories = EmptyMap
    /\ projIdx = 1
    /\ newDigests = EmptyMap
    /\ emitted = EmptyBag
    /\ delivered = EmptyBag
    /\ fetchLog = <<>>
    /\ visited = {}
    /\ updated = {}
    /\ hist = [u \in Users |-> NoHist]
    /\ prev = NoHist
    /\ wrote = NoWrite
    /\ ticks = 0
    /\ events = 0
    /\ listed = EmptyMap
    /\ shared = {}
    /\ clientCalls = <<>>
    /\ handled = <<>>
    /\ newWizard = EmptyMap
    /\ textHandlers = [h \in TextHandlers |-> IdleHandler]
    /\ createdStories = <<>>
    /\ wizardSeq = 0

\* the process with its goroutine at the select of pollNotifications
InitProcess == InitFields /\ split = NoSplit /\ pc = "idle"

Init ==
    /\ links = [u \in Users |->
                  [NewLink(u, TaigaUserOf(u)) EXCEPT
                      !.WatchedProjects = InitWatched(u),
                      !.LastTaskStates = Ptr(EmptyMap)]]
    /\ mappings = EmptyMap
    /\ usernames = EmptyMap
    /\ disk = [path |-> Written(Encode(Mem)), tmp |-> NoFile]
    /\ baseURLOK \in BOOLEAN
    /\ InitProcess

\* ------------------------------------------------------- the remote side
\* somebody edits a user story in Taiga
RemoteChange(i, field, val) ==
    /\ events < MaxEvents
    /\ stories[i][field] # val
    /\ stories' = [stories EXCEPT ![i][field] = val]
    /\ events' = events + 1
    /\ UNCHANGED <<calls, storeVars, baseURLOK, cancelled, pc, tickVars, cycleVars,
                   hist, ticks>>
    /\ UNCHANGED auxVars

RemoteStep ==
    \E i \in Items :
        \/ \E v \in StatusNames : RemoteChange(i, "Status", v)
        \/ \E v \in {Nil} \cup {Ptr(TaigaUserOf(u)) : u \in Users} :
               RemoteChange(i, "AssignedTo", v)
        \/ \E v \in Subjects : RemoteChange(i, "Subject", v)
        \/ \E v \in Refs : RemoteChange(i, "Ref", v)

\* ------------------------------------------------- Store operations
\* Store.Save as called by /link: insert or replace, then persist
Save(u) ==
    /\ events < MaxEvents
    /\ baseURLOK
    /\ links' = LinksSave(links, NewLink(u, TaigaUserOf(u)))
    /\ \E o \in OpPersistOutcomes :
          persist([Mem EXCEPT !.links = links'], o) /\ SpendOpPersist(o)
    /\ hist' = [hist EXCEPT ![u] = NoHist]
    /\ UNCHANGED <<mappings, usernames, calls, stories, baseURLOK, cancelled,
                   pc, tickVars, cycleVars, ticks>>
    /\ UNCHANGED auxVars

\* Store.Delete as called by /unlink
Delete(u) ==
    /\ events < MaxEvents
    /\ links' = LinksDelete(links, u)
    /\ \E o \in OpPersistOutcomes :
          persist([Mem EXCEPT !.links = links'], o) /\ SpendOpPersist(o)
    /\ hist' = [hist EXCEPT ![u] = NoHist]
    /\ UNCHANGED <<mappings, usernames, calls, stories, baseURLOK, cancelled,
                   pc, tickVars, cycleVars, ticks>>
    /\ UNCHANGED auxVars

\* Store.SetNotifyChat as called by /notifyhere, /notifychat and /notifypm
SetNotifyChat(u, chatID) ==
    /\ events < MaxEvents
    /\ ~NotFound(links, u)
    /\ links' = LinksSetNotifyChat(links, u, chatID)
    /\ \E o \in OpPersistOutcomes :
          persist([Mem EXCEPT !.links = links'], o) /\ SpendOpPersist(o)
    /\ UNCHANGED <<mappings, usernames, calls, stories, baseURLOK, cancelled,
                   pc, tickVars, cycleVars, hist, ticks>>
    /\ UNCHANGED auxVars

\* Store.AddWatchedProject as called by /watch
AddWatchedProject(u, projectID) ==
    /\ events < MaxEvents
    /\ ~NotFound(links, u)
    /\ links' = LinksAddWatchedProject(links, u, projectID)
    /\ \E o \in OpPersistOutcomes :
          persist([Mem EXCEPT !.links = links'], o) /\ SpendOpPersist(o)
    /\ UNCHANGED <<mappings, usernames, calls, stories, baseURLOK, cancelled,
                   pc, tickVars, cycleVars, hist, ticks>>
    /\ UNCHANGED auxVars

\* Store.RemoveWatchedProject as called by /unwatch
RemoveWatchedProject(u, projectID) ==
    /\ events < MaxEvents
    /\ ~NotFound(links, u)
    /\ links' = LinksRemoveWatchedProject(links, u, projectID)
    /\ \E o \in OpPersistOutcomes :
          persist([Mem EXCEPT !.links = links'], o) /\ SpendOpPersist(o)
    /\ UNCHANGED <<mappings, usernames, calls, stories, baseURLOK, cancelled,
                   pc, tickVars, cycleVars, hist, ticks>>
    /\ UNCHANGED auxVars

FrontEnd ==
    \E u \in Users :
        \/ Save(u)
        \/ Delete(u)
        \/ \E c \in {Nil, Ptr(GroupChat)} : SetNotifyChat(u, c)
        \/ \E p \in Projects : AddWatchedProject(u, p)
        \/ \E p \in Projects : RemoveWatchedProject(u, p)

\* the process receives SIGINT/SIGTERM: ctx is cancelled
Cancel ==
    /\ ~cancelled
    /\ events < MaxEvents
    /\ events' = events + 1
    /\ cancelled' = TRUE
    /\ UNCHANGED <<calls, storeVars, stories, baseURLOK, pc, tickVars, cycleVars,
                   hist, ticks>>
    /\ UNCHANGED auxVars

\* ------------------------------------------------- pollNotifications
\* mutant: the next link is taken before the digests are written
AtLoopHeadEarly == pc \in {"loop", "update", "stored"}
\* the head of the range over links: at the start of the tick, and after
\* the body has run for a link
AtLoopHead == pc \in {"loop", "stored"}

\* case <-ticker.C: links := store.List()
Tick ==
    /\ pc = "idle"
    /\ ticks < MaxTicks
    /\ ticks' = ticks + 1
    /\ snap' = links
    /\ todo' = DOMAIN links
    /\ visited' = {}
    /\ updated' = {}
    /\ pc' = "loop"
    /\ UNCHANGED <<calls, storeVars, stories, baseURLOK, cancelled, cycleVars, hist, events>>
    /\ UNCHANGED auxVars

\* case <-ctx.Done(): return
Exit ==
    /\ pc = "idle"
    /\ cancelled
    /\ pc' = "done"
    /\ UNCHANGED <<calls, storeVars, stories, baseURLOK, cancelled, tickVars,
                   cycleVars, hist, ticks, events>>
    /\ UNCHANGED auxVars

\* main: the process is started again and storage.New loads the file; a
\* load error ends it at once (log.Fatalf)
New ==
    /\ pc \in {"idle", "done", "down"}
    /\ LET r == load(disk.path)
       IN  /\ links' = r.mem.links
           /\ mappings' = r.mem.mappings
           /\ usernames' = r.mem.usernames
           /\ pc' = IF r.ok THEN "idle" ELSE "fatal"
    /\ cancelled' = FALSE
    /\ snap' = EmptyMap
    /\ todo' = {}
    /\ visited' = {}
    /\ updated' = {}
    /\ link' = ZeroLink
    /\ allStories' = EmptyMap
    /\ projIdx' = 1
    /\ newDigests' = EmptyMap
    /\ emitted' = EmptyBag
    /\ delivered' = EmptyBag
    /\ fetchLog' = <<>>
    /\ prev' = NoHist
    /\ wrote' = NoWrite
    /\ ticks' = 0
    /\ listed' = EmptyMap
    /\ shared' = {}
    /\ UNCHANGED <<disk, calls, stories, baseURLOK, hist, events, clientCalls>>
    /\ UNCHANGED uiVars

\* mutant: return instead of continue
AfterClientErrorReturn(rest) == {}

\* what is left of the range over links after taiga.NewClient failed
AfterClientError(rest) == rest

\* the range loop takes the next link; taiga.NewClient
BeginUser ==
    /\ AtLoopHead
    /\ \E u \in todo :
          /\ link' = snap[u]
          /\ visited' = visited \cup {u}
          /\ prev' = hist[u]
          /\ IF baseURLOK
             THEN /\ pc' = "assigned"
                  /\ todo' = todo \ {u}
             ELSE /\ pc' = "loop"
                  /\ todo' = AfterClientError(todo \ {u})
    /\ allStories' = EmptyMap
    /\ projIdx' = 1
    /\ newDigests' = EmptyMap
    /\ emitted' = EmptyBag
    /\ delivered' = EmptyBag
    /\ fetchLog' = <<>>
    /\ wrote' = NoWrite
    /\ UNCHANGED <<calls, storeVars, stories, baseURLOK, cancelled, snap, updated,
                   hist, ticks, events>>
    /\ UNCHANGED auxVars

\* the range over links is exhausted: back to the select
EndTick ==
    /\ AtLoopHead
    /\ todo = {}
    /\ pc' = "idle"
    /\ UNCHANGED <<calls, storeVars, stories, baseURLOK, cancelled, tickVars,
                   cycleVars, hist, ticks, events>>
    /\ UNCHANGED auxVars

\* ListUserStories(AssignedTo: &assigned); an error is ignored
FetchAssigned ==
    /\ pc = "assigned"
    /\ \E ok \in Outcomes :
          LET fetched == ListUserStories(0, Ptr(link.TaigaUserID))
          IN  /\ allStories' = IF ok THEN MergeStories(allStories, fetched)
                               ELSE allStories
              /\ fetchLog' = Append(fetchLog,
                    [src |-> 0, ok |-> ok,
                     result |-> IF ok THEN fetched ELSE EmptyMap])
              /\ Spend(ok)
    /\ projIdx' = 1
    /\ pc' = "projects"
    /\ UNCHANGED <<calls, storeVars, stories, baseURLOK, cancelled, tickVars, link,
                   newDigests, emitted, delivered, prev, wrote, hist, ticks>>
    /\ UNCHANGED auxVars

\* mutant: break instead of continue
NextProjectBreak(idx, n, ok) == IF ok THEN idx + 1 ELSE n + 1

\* index of the next watched project after the fetch of project idx of n
NextProject(idx, n, ok) == idx + 1

\* ListUserStories(ProjectID: projectID); on error continue
FetchProject ==
    /\ pc = "projects"
    /\ projIdx <= Len(link.WatchedProjects)
    /\ \E ok \in Outcomes :
          LET projectID == link.WatchedProjects[projIdx]
              fetched == ListUserStories(projectID, Nil)
          IN  /\ allStories' = IF ok THEN MergeStories(allStories, fetched)
                               ELSE allStories
              /\ fetchLog' = Append(fetchLog,
                    [src |-> projectID, ok |-> ok,
                     result |-> IF ok THEN fetched ELSE EmptyMap])
              /\ projIdx' = NextProject(projIdx, Len(link.WatchedProjects), ok)
              /\ Spend(ok)
    /\ UNCHANGED <<calls, storeVars, stories, baseURLOK, cancelled, pc, tickVars,
                   link, newDigests, emitted, delivered, prev, wrote, hist,
                   ticks>>
    /\ UNCHANGED auxVars

\* the range over allStories: digests and SendMessage calls, whose errors
\* are discarded; every send fails once ctx is cancelled
Compare ==
    /\ pc = "projects"
    /\ projIdx > Len(link.WatchedProjects)
    /\ newDigests' = NewDigests(allStories)
    /\ emitted' = NotifyAll(DOMAIN allStories, Last(link), BaselineOnly(link),
                            allStories, Destination(link))
    /\ IF cancelled
       THEN delivered' = EmptyBag /\ UNCHANGED events
       ELSE \E ok \in Outcomes :
               /\ IF ok THEN delivered' = emitted'
                  ELSE delivered' \in SubBag(emitted') \ {emitted'}
               /\ Spend(ok)
    /\ pc' = "update"
    /\ UNCHANGED <<calls, storeVars, stories, baseURLOK, cancelled, tickVars, link,
                   allStories, projIdx, fetchLog, prev, wrote, hist, ticks>>
    /\ UNCHANGED auxVars

\* _ = store.UpdateTaskState(link.TelegramID, newDigests)
StoreDigests ==
    /\ pc = "update"
    /\ LET u == link.TelegramID
           found == ~NotFound(links, u)
           cycle(err) ==
               IF found
               THEN [valid |-> TRUE, obs |-> allStories,
                     stored |-> Last(links'[u]), failed |-> err]
               ELSE NoHist
           result(err) ==
               [called |-> TRUE, ok |-> found, err |-> err,
                m |-> IF found THEN Last(links'[u]) ELSE EmptyMap,
                before |-> IF found THEN Last(links[u]) ELSE EmptyMap]
       IN  /\ links' = UpdateTaskState(links, u, newDigests)
           /\ IF found
              THEN \E o \in PersistOutcomes :
                      /\ persist([Mem EXCEPT !.links = links'], o)
                      /\ SpendPersist(o)
                      /\ wrote' = result(o # "ok")
                      /\ hist' = [hist EXCEPT ![u] = cycle(o # "ok")]
              ELSE /\ UNCHANGED <<disk, events>>
                   /\ wrote' = result(TRUE)
                   /\ hist' = [hist EXCEPT ![u] = cycle(TRUE)]
           /\ updated' = updated \cup {u}
    /\ pc' = "stored"
    /\ UNCHANGED <<mappings, usernames, calls, stories, baseURLOK, cancelled, snap, todo, visited, link,
                   allStories, projIdx, newDigests, emitted, delivered,
                   fetchLog, prev, ticks>>
    /\ UNCHANGED auxVars

Reconciler ==
    \/ Tick
    \/ Exit
    \/ BeginUser
    \/ EndTick
    \/ FetchAssigned
    \/ FetchProject
    \/ Compare
    \/ StoreDigests

Next ==
    \/ RemoteStep
    \/ FrontEnd
    \/ Cancel
    \/ Reconciler

Spec == Init /\ [][Next]_vars

\* the same program over several runs of the process
NextRestart ==
    \/ Next
    \/ New

SpecRestart == Init /\ [][NextRestart]_vars

\* ------------------------------------------- the Store on its own
\* a digest map a caller passes
SomeDigests == [i \in {1} |-> [Status |-> "New", AssignedTo |-> 0]]
\* the links a caller saves for user u: the one /link builds, and one with
\* every field set
SaveArgs(u) ==
    {NewLink(u, TaigaUserOf(u)),
     [NewLink(u, TaigaUserOf(u)) EXCEPT
         !.NotifyChatID = Ptr(GroupChat),
         !.WatchedProjects = <<1>>,
         !.LastTaskStates = Ptr(SomeDigests)]}
Handles == {<<"a">>}

\* the tables an earlier run of the process has left in the file
SeedStore ==
    [links |-> [u \in {1} |->
                   [NewLink(1, TaigaUserOf(1)) EXCEPT
                       !.WatchedProjects = <<1>>,
                       !.LastTaskStates = Ptr(SomeDigests)]],
     mappings |-> [p \in {1} |-> [u \in {1} |-> TaigaUserOf(1)]],
     usernames |-> [h \in Handles |-> 1]]
\* the same file with "last_task_states": null in its link
NullDigestsData ==
    [Encode(SeedStore) EXCEPT
        !.links = Ptr([u \in {1} |->
                          [jsonLink(SeedStore.links[1]) EXCEPT
                              !.last_task_states = Nil]])]
\* the file the process finds at its first start
InitFiles == {NoFile, Written(Encode(SeedStore)), Written(NullDigestsData)}

InitStore ==
    /\ \E f \in InitFiles :
          /\ load(f).ok
          /\ disk = [path |-> f, tmp |-> NoFile]
          /\ links = load(f).mem.links
          /\ mappings = load(f).mem.mappings
          /\ usernames = load(f).mem.usernames
    /\ baseURLOK = TRUE
    /\ InitProcess

\* the fields of the listed links that are still one object with the
\* Store's after a method has set the Store's link: Save and Delete put
\* another link or none, UpdateTaskState another map, RemoveWatchedProject
\* a list it has made; the append of AddWatchedProject writes behind the
\* end of the array or moves the list to a larger one
SharedAfter(op, id, arg) ==
    CASE op \in {"Save", "Delete"} ->
            {shared \ {<<id, "LastTaskStates">>, <<id, "WatchedProjects">>}}
      [] op = "UpdateTaskState" -> {shared \ {<<id, "LastTaskStates">>}}
      [] op = "RemoveWatchedProject" ->
            {shared \ {<<id, "WatchedProjects">>}}
      [] op = "AddWatchedProject" ->
            IF InSeq(LinkAt(links, id).WatchedProjects, arg) THEN {shared}
            ELSE {shared, shared \ {<<id, "WatchedProjects">>}}
      [] OTHER -> {shared}

\* a call may fail in persist or be cut short by a kill of the process
\* while the event budget lasts
StoreOutcomes ==
    IF events < MaxEvents
    THEN {"ok"} \cup PersistErrors \cup CrashPoints
    ELSE {"ok"}

\* one call of a method of the Store: early is "notfound", "invalid" or
\* "noop" when the method returns before it changes anything ("noop" with a
\* nil error), else it is "persist" and want
\* holds the tables as the method has set them when it calls persist
StoreCall(op, id, arg, early, want) ==
    /\ pc = "idle"
    /\ Len(calls) < MaxCalls
    /\ IF early # "persist"
       THEN /\ calls' = Append(calls,
                   [op |-> op, id |-> id, arg |-> arg, out |-> early,
                    err |-> early \in {"notfound", "invalid"}, pre |-> Mem,
                    want |-> Mem,
                    post |-> Mem, before |-> disk, after |-> disk])
            /\ UNCHANGED <<links, mappings, usernames, disk, pc, events,
                           listVars>>
       ELSE \E o \in StoreOutcomes :
               LET post == IF o \in CrashPoints THEN EmptyStore ELSE want
               IN  /\ persist(want, o)
                   /\ SpendPersist(o)
                   /\ links' = post.links
                   /\ mappings' = post.mappings
                   /\ usernames' = post.usernames
                   /\ pc' = IF o \in CrashPoints THEN "down" ELSE "idle"
                   /\ listed' = IF o \in CrashPoints THEN EmptyMap
                                ELSE listed
                   /\ shared' \in IF o \in CrashPoints THEN {{}}
                                  ELSE SharedAfter(op, id, arg)
                   /\ calls' = Append(calls,
                         [op |-> op, id |-> id, arg |-> arg, out |-> o,
                          err |-> o \in PersistErrors, pre |-> Mem,
                          want |-> want, post |-> post, before |-> disk,
                          after |-> disk'])
    /\ UNCHANGED <<stories, baseURLOK, cancelled, tickVars, cycleVars, hist,
                   ticks, clientCalls>>
    /\ UNCHANGED uiVars

StoreSave(l) ==
    StoreCall("Save", l.TelegramID, l, "persist",
              [Mem EXCEPT !.links = LinksSave(links, l)])

StoreDelete(u) ==
    StoreCall("Delete", u, Nil, "persist",
              [Mem EXCEPT !.links = LinksDelete(links, u)])

StoreUpdateTaskState(u, digests) ==
    StoreCall("UpdateTaskState", u, digests,
              IF NotFound(links, u) THEN "notfound" ELSE "persist",
              [Mem EXCEPT !.links = UpdateTaskState(links, u, digests)])

StoreSetNotifyChat(u, chatID) ==
    StoreCall("SetNotifyChat", u, chatID,
              IF NotFound(links, u) THEN "notfound" ELSE "persist",
              [Mem EXCEPT !.links = LinksSetNotifyChat(links, u, chatID)])

StoreAddWatchedProject(u, projectID) ==
    StoreCall("AddWatchedProject", u, projectID,
              IF NotFound(links, u) THEN "notfound" ELSE "persist",
              [Mem EXCEPT
                  !.links = LinksAddWatchedProject(links, u, projectID)])

StoreRemoveWatchedProject(u, projectID) ==
    StoreCall("RemoveWatchedProject", u, projectID,
              IF NotFound(links, u) THEN "notfound" ELSE "persist",
              [Mem EXCEPT
                  !.links = LinksRemoveWatchedProject(links, u, projectID)])

StoreSetProjectUserMapping(projectID, u, taigaUserID) ==
    StoreCall("SetProjectUserMapping", u, <<projectID, taigaUserID>>,
              IF SetMappingInvalid(projectID, u, taigaUserID) THEN "invalid"
              ELSE "persist",
              [Mem EXCEPT
                  !.mappings = MappingsSet(mappings, projectID, u,
                                           taigaUserID)])

StoreRemoveProjectUserMapping(projectID, u) ==
    StoreCall("RemoveProjectUserMapping", u, <<projectID>>,
              IF RemoveMappingInvalid(projectID, u) THEN "invalid"
              ELSE IF BucketMissing(mappings, projectID) THEN "noop"
              ELSE "persist",
              [Mem EXCEPT
                  !.mappings = MappingsRemove(mappings, projectID, u)])

StoreUpsertTelegramUsername(username, u) ==
    StoreCall("UpsertTelegramUsername", u, username,
              IF UpsertSkipped(username, u) THEN "noop"
              ELSE IF UsernameKnown(usernames, HandleKey(username), u)
                   THEN "noop"
              ELSE "persist",
              [Mem EXCEPT
                  !.usernames = UsernamesUpsert(usernames,
                                                HandleKey(username), u)])

NextStore ==
    \/ \E u \in Users : \E l \in SaveArgs(u) : StoreSave(l)
    \/ \E u \in Users : StoreDelete(u)
    \/ \E u \in Users : \E d \in {EmptyMap, SomeDigests} :
          StoreUpdateTaskState(u, d)
    \/ \E u \in Users : \E c \in {Nil, Ptr(GroupChat)} :
          StoreSetNotifyChat(u, c)
    \/ \E u \in Users : \E p \in Projects : StoreAddWatchedProject(u, p)
    \/ \E u \in Users : \E p \in Projects : StoreRemoveWatchedProject(u, p)
    \/ \E u \in Users : \E p \in Projects :
          StoreSetProjectUserMapping(p, u, TaigaUserOf(u))
    \/ \E u \in Users : \E h \in Handles : StoreUpsertTelegramUsername(h, u)
    \/ New

SpecStore == InitStore /\ [][NextStore]_vars

\* --------------------- the mapping table and the username index
\* the ids a caller passes: a negative one, zero, and the ids in use
ProjectArgs == {-1, 0} \cup Projects
UserArgs == {-1, 0} \cup Users
TaigaArgs == {-1, 0} \cup {TaigaUserOf(u) : u \in Users}
\* the handles a caller passes
RawHandles ==
    {<<>>, <<" ">>, <<"@">>, <<"a">>, <<"@", "A">>, <<" ", "a", " ">>}

NextIndex ==
    \/ \E p \in ProjectArgs : \E u \in UserArgs : \E r \in TaigaArgs :
          StoreSetProjectUserMapping(p, u, r)
    \/ \E p \in ProjectArgs : \E u \in UserArgs :
          StoreRemoveProjectUserMapping(p, u)
    \/ \E h \in RawHandles : \E u \in {0} \cup Users :
          StoreUpsertTelegramUsername(h, u)
    \/ \E u \in Users : StoreDelete(u)
    \/ New

SpecIndex == InitStore /\ [][NextIndex]_vars

\* ------------------------------------------- a file of the legacy layout
\* the file an older version has written for the links table
LegacyData(table) ==
    [NoData EXCEPT !.by_id = Ptr([u \in DOMAIN table |-> jsonLink(table[u])])]
LegacyTables ==
    {EmptyMap, SeedStore.links,
     [u \in Users |->
         [NewLink(u, TaigaUserOf(u)) EXCEPT !.LastTaskStates = Ptr(EmptyMap)]]}
LegacyFiles == {Written(LegacyData(t)) : t \in LegacyTables}

\* the process is not running yet: New is its first step
InitLegacy ==
    /\ \E f \in LegacyFiles : disk = [path |-> f, tmp |-> NoFile]
    /\ links = EmptyStore.links
    /\ mappings = EmptyStore.mappings
    /\ usernames = EmptyStore.usernames
    /\ baseURLOK = TRUE
    /\ pc = "down"
    /\ split = NoSplit
    /\ InitFields

SpecLegacy == InitLegacy /\ [][NextStore]_vars

\* ------------------------------------------- the caller of Store.List
\* Store.List: the links are copied as structs, so that the digest map and
\* the array of the watched projects of a copy are those of the Store's link
StoreList ==
    /\ pc = "idle"
    /\ listed' = links
    /\ shared' =
          {<<u, "LastTaskStates">> :
              u \in {x \in DOMAIN links : links[x].LastTaskStates # Nil}}
          \cup {<<u, "WatchedProjects">> :
                   u \in {x \in DOMAIN links :
                             Len(links[x].WatchedProjects) > 0}}
    /\ (listed' # listed \/ shared' # shared)
    /\ UNCHANGED <<storeVars, calls, stories, baseURLOK, cancelled, pc,
                   tickVars, cycleVars, hist, ticks, events, clientCalls>>
    /\ UNCHANGED uiVars

\* the digest a caller writes into a listed link
CallerDigest == [Status |-> "Done", AssignedTo |-> 0]

\* the caller assigns l.LastTaskStates[i] = d in a listed link l
CallerSetDigest(u, i, d) ==
    /\ pc = "idle"
    /\ u \in DOMAIN listed
    /\ listed[u].LastTaskStates # Nil
    /\ LET old == listed[u].LastTaskStates[1]
           new == [j \in DOMAIN old \cup {i} |-> IF j = i THEN d ELSE old[j]]
       IN  /\ new # old
           /\ listed' = [listed EXCEPT ![u].LastTaskStates = Ptr(new)]
           /\ links' = IF <<u, "LastTaskStates">> \in shared
                       THEN [links EXCEPT ![u].LastTaskStates = Ptr(new)]
                       ELSE links
    /\ UNCHANGED <<mappings, usernames, disk, calls, stories, baseURLOK,
                   cancelled, pc, tickVars, cycleVars, hist, ticks, events,
                   shared, clientCalls>>
    /\ UNCHANGED uiVars

\* the caller assigns l.WatchedProjects[k] = p in a listed link l
CallerSetWatched(u, k, p) ==
    /\ pc = "idle"
    /\ u \in DOMAIN listed
    /\ k \in 1..Len(listed[u].WatchedProjects)
    /\ listed[u].WatchedProjects[k] # p
    /\ listed' = [listed EXCEPT ![u].WatchedProjects[k] = p]
    /\ links' = IF <<u, "WatchedProjects">> \in shared
                THEN [links EXCEPT ![u].WatchedProjects[k] = p]
                ELSE links
    /\ UNCHANGED <<mappings, usernames, disk, calls, stories, baseURLOK,
                   cancelled, pc, tickVars, cycleVars, hist, ticks, events,
                   shared, clientCalls>>
    /\ UNCHANGED uiVars

NextList ==
    \/ StoreList
    \/ \E u \in Users : \E i \in Items : CallerSetDigest(u, i, CallerDigest)
    \/ \E u \in Users : \E k \in 1..NumProjects : \E p \in Projects :
          CallerSetWatched(u, k, p)
    \/ \E u \in Users : \E d \in {EmptyMap, SomeDigests} :
          StoreUpdateTaskState(u, d)
    \/ \E u \in Users : \E p \in Projects : StoreAddWatchedProject(u, p)
    \/ \E u \in Users : \E p \in Projects : StoreRemoveWatchedProject(u, p)

SpecList == InitStore /\ [][NextList]_vars

\* ------------------------------------------------- the Taiga client
Methods == {"GET", "POST"}
\* the paths the methods of the Client resolve against the base URL
Paths == {"userstories", "memberships"}
\* c.authToken as NewClient has set it: empty, or a token
AuthTokens == {"", "t"}
\* what comes back for a request: no response (httpClient.Do fails), or a
\* response with a status, a Content-Type and a body that decodes or not
StatusCodes == {200, 401, 500}
ContentTypes == {"", "application/json", "text/html"}
NoResponse == [status |-> 0, contentType |-> "", decodes |-> FALSE]
Responses ==
    {NoResponse} \cup
    [status : StatusCodes, contentType : ContentTypes, decodes : BOOLEAN]

\* the request Client.do sends: the header Authorization is set when the
\* token is not empty
Request(method, path, authToken) ==
    [method |-> method, path |-> path,
     authorization |-> IF authToken # "" THEN Ptr(authToken) ELSE Nil]

\* strings.Contains(contentType, "json")
IsJSONType(contentType) == contentType = "application/json"

\* the error Client.do returns for the response to its request ("nil": none)
DoError(resp, hasOut) ==
    IF resp = NoResponse THEN "transport"
    ELSE IF resp.status >= 300 THEN "status"
    ELSE IF ~hasOut THEN "nil"
    ELSE IF resp.contentType # "" /\ ~IsJSONType(resp.contentType)
         THEN "content-type"
    ELSE IF ~resp.decodes THEN "decode"
    ELSE "nil"

\* Client.do: one request is sent, its response decides the result; the
\* client sends no other request and calls no function of its caller
ClientDo(method, path, authToken, hasOut) ==
    /\ Len(clientCalls) < MaxCalls
    /\ \E resp \in Responses :
          clientCalls' = Append(clientCalls,
              [method |-> method, path |-> path, authToken |-> authToken,
               hasOut |-> hasOut,
               exchanges |-> <<[request |-> Request(method, path, authToken),
                                response |-> resp]>>,
               callbacks |-> <<>>,
               err |-> DoError(resp, hasOut)])
    /\ UNCHANGED <<storeVars, calls, stories, baseURLOK, cancelled, pc,
                   tickVars, cycleVars, hist, ticks, events, listVars>>
    /\ UNCHANGED uiVars

InitClient ==
    /\ links = EmptyStore.links
    /\ mappings = EmptyStore.mappings
    /\ usernames = EmptyStore.usernames
    /\ disk = [path |-> NoFile, tmp |-> NoFile]
    /\ baseURLOK = TRUE
    /\ InitProcess

NextClient ==
    \E method \in Methods : \E path \in Paths : \E authToken \in AuthTokens :
        \E hasOut \in BOOLEAN : ClientDo(method, path, authToken, hasOut)

SpecClient == InitClient /\ [][NextClient]_vars

\* ------------------------------------------------- the admin commands
\* strconv.ParseInt of an argument of a command, as Ptr(n) or Nil: the
\* arguments are one digit, with a sign or without
DigitValue(c) ==
    CASE c = "0" -> 0 [] c = "1" -> 1 [] c = "2" -> 2 [] c = "3" -> 3
ParseInt(s) ==
    IF Len(s) = 1 /\ s[1] \in {"0", "1", "2", "3"}
    THEN Ptr(DigitValue(s[1]))
    ELSE IF Len(s) = 2 /\ s[1] = "-" /\ s[2] \in {"0", "1", "2", "3"}
         THEN Ptr(0 - DigitValue(s[2]))
    ELSE Nil

\* resolveTelegramTarget: the telegram id as Ptr(id), or Nil for an error
resolveTelegramTarget(table, raw) ==
    IF TrimSpace(raw) = <<>> THEN Nil
    ELSE IF Head(TrimSpace(raw)) = "@"
         THEN ResolveTelegramHandle(table, TrimSpace(raw))
    ELSE IF ParseInt(TrimSpace(raw)) = Nil \/ ParseInt(TrimSpace(raw)) = Ptr(0)
         THEN Nil
    ELSE ParseInt(TrimSpace(raw))

\* a Membership as Taiga lists it for a project
Membership(userID, isAdmin, isOwner) ==
    [UserID |-> userID, IsAdmin |-> isAdmin, IsOwner |-> isOwner]
\* what client.ListMemberships gives isProjectAdmin for a project: an
\* error, or the memberships of the project
NoListing == [ok |-> FALSE, list |-> <<>>]
Listings ==
    {NoListing}
    \cup {[ok |-> TRUE, list |-> l] :
             l \in {<<>>,
                    <<Membership(TaigaUserOf(2), TRUE, FALSE),
                      Membership(TaigaUserOf(1), FALSE, FALSE)>>,
                    <<Membership(TaigaUserOf(2), FALSE, FALSE),
                      Membership(TaigaUserOf(1), FALSE, TRUE)>>}}

\* mutant: any membership of the project will do
FirstMembershipAny(list, taigaUserID) ==
    IF list = <<>> THEN FALSE ELSE list[1].IsAdmin \/ list[1].IsOwner

\* the loop of isProjectAdmin: the first membership of the user decides
FirstMembership(list, taigaUserID) ==
    LET ks == {k \in 1..Len(list) : list[k].UserID = taigaUserID}
    IN  IF ks = {} THEN FALSE
        ELSE LET first == CHOOSE k \in ks : \A j \in ks : k <= j
             IN  list[first].IsAdmin \/ list[first].IsOwner

\* isProjectAdmin: (admin, err), err being "nil" or what failed
isProjectAdmin(table, telegramID, projectID, listing) ==
    IF NotFound(table, telegramID)
    THEN [admin |-> FALSE, err |-> "unlinked"]
    ELSE IF ~baseURLOK THEN [admin |-> FALSE, err |-> "client"]
    ELSE IF projectID <= 0 \/ ~listing.ok
         THEN [admin |-> FALSE, err |-> "remote"]
    ELSE [admin |-> FirstMembership(listing.list,
                                    LinkAt(table, telegramID).TaigaUserID),
          err |-> "nil"]

\* the answer of a command that does not get to its permission check
NoCheck(reply) ==
    [reply |-> reply, check |-> Nil, op |-> "none", want |-> Nil,
     shown |-> Nil]
\* the answers after the permission check, for a check that did not pass
Denied(check) ==
    [reply |-> IF check.err # "nil" THEN "check_failed" ELSE "not_admin",
     check |-> Ptr(check), op |-> "none", want |-> Nil, shown |-> Nil]

\* the permission check of a command and what follows it: granted is what
\* the handler does when the check passes
Checked(mem, from, projectID, listing, granted) ==
    LET check == isProjectAdmin(mem.links, from, projectID, listing)
    IN  IF check.err # "nil" \/ ~check.admin THEN Denied(check)
        ELSE [granted EXCEPT !.check = Ptr(check)]

\* store.SetProjectUserMapping as the handlers of /map and /mapid call it
SetMapping(mem, projectID, target, taigaUserID) ==
    IF SetMappingInvalid(projectID, target, taigaUserID)
    THEN [NoCheck("save_failed") EXCEPT !.op = "SetProjectUserMapping"]
    ELSE [reply |-> "saved", check |-> Nil, op |-> "SetProjectUserMapping",
          want |-> Ptr([mem EXCEPT
              !.mappings = MappingsSet(mem.mappings, projectID, target,
                                       taigaUserID)]),
          shown |-> Nil]

\* the handler of /map: parts are the words after the command, reply the
\* sender of the message replied to
MapHandler(mem, from, parts, reply, listing) ==
    IF Len(parts) # 2 THEN NoCheck("usage")
    ELSE IF reply = Nil THEN NoCheck("no_reply")
    ELSE IF ParseInt(parts[1]) = Nil \/ ParseInt(parts[1])[1] <= 0
         THEN NoCheck("bad_project")
    ELSE IF ParseInt(parts[2]) = Nil \/ ParseInt(parts[2])[1] <= 0
         THEN NoCheck("bad_taiga_user")
    ELSE Checked(mem, from, ParseInt(parts[1])[1], listing,
                 SetMapping(mem, ParseInt(parts[1])[1], reply[1],
                            ParseInt(parts[2])[1]))

\* the handler of /mapid
MapIDHandler(mem, from, parts, listing) ==
    IF Len(parts) # 3 THEN NoCheck("usage")
    ELSE IF ParseInt(parts[1]) = Nil \/ ParseInt(parts[1])[1] <= 0
         THEN NoCheck("bad_project")
    ELSE IF resolveTelegramTarget(mem.usernames, parts[2]) = Nil
         THEN NoCheck("bad_target")
    ELSE IF ParseInt(parts[3]) = Nil \/ ParseInt(parts[3])[1] <= 0
         THEN NoCheck("bad_taiga_user")
    ELSE Checked(mem, from, ParseInt(parts[1])[1], listing,
                 SetMapping(mem, ParseInt(parts[1])[1],
                            resolveTelegramTarget(mem.usernames, parts[2])[1],
                            ParseInt(parts[3])[1]))

\* the handler of /adminlinkid: me is what GetMe gives for the token of
\* the command, Ptr(id) or Nil
AdminLinkIDHandler(mem, from, private, parts, listing, me) ==
    IF ~private THEN NoCheck("not_private")
    ELSE IF Len(parts) # 3 THEN NoCheck("usage")
    ELSE IF ParseInt(parts[1]) = Nil \/ ParseInt(parts[1])[1] <= 0
         THEN NoCheck("bad_project")
    ELSE IF resolveTelegramTarget(mem.usernames, parts[2]) = Nil
         THEN NoCheck("bad_target")
    ELSE IF TrimSpace(parts[3]) = <<>> THEN NoCheck("no_token")
    ELSE Checked(mem, from, ParseInt(parts[1])[1], listing,
             IF ~baseURLOK THEN NoCheck("client_error")
             ELSE IF me = Nil THEN NoCheck("token_error")
             ELSE [reply |-> "saved", check |-> Nil, op |-> "Save",
                   want |-> Ptr([mem EXCEPT
                       !.links = LinksSave(mem.links,
                           NewLink(resolveTelegramTarget(mem.usernames,
                                                         parts[2])[1],
                                   me[1]))]),
                   shown |-> Nil])

\* the handler of /mappings: args is the text after the command
MappingsHandler(mem, from, args, listing) ==
    IF ParseInt(args) = Nil \/ ParseInt(args)[1] <= 0 THEN NoCheck("usage")
    ELSE Checked(mem, from, ParseInt(args)[1], listing,
             [reply |-> IF DOMAIN ListProjectUserMappings(mem.mappings,
                                      ParseInt(args)[1]) = {}
                        THEN "no_mappings" ELSE "mappings",
              check |-> Nil, op |-> "ListProjectUserMappings", want |-> Nil,
              shown |-> Ptr(ListProjectUserMappings(mem.mappings,
                                                    ParseInt(args)[1]))])

\* the middleware of every update: the sender's username goes into the
\* index, and the error of the call is dropped. The tables and the files it
\* leaves, o being the outcome of its persist
Middleware(from, username, o) ==
    IF \/ UpsertSkipped(username, from)
       \/ UsernameKnown(usernames, HandleKey(username), from)
    THEN [mem |-> Mem, disk |-> disk, persisted |-> FALSE]
    ELSE LET mem == [Mem EXCEPT
                        !.usernames = UsernamesUpsert(usernames,
                                          HandleKey(username), from)]
         IN  [mem |-> mem, disk |-> FilesAfter(disk, Encode(mem), Stage(o)),
              persisted |-> TRUE]

\* the outcomes of the two calls of persist an update may make: each
\* succeeds, or fails in its rename
UpdateOutcomes ==
    {<<o1, o2>> \in {"ok", "rename"} \X {"ok", "rename"} :
        events + (IF o1 = "ok" THEN 0 ELSE 1) + (IF o2 = "ok" THEN 0 ELSE 1)
            <= MaxEvents}

\* the handler registered for the command, called with the message msg and
\* the tables mem
Handler(cmd, mem, from, msg, listing) ==
    CASE cmd = "map" -> MapHandler(mem, from, msg.parts, msg.reply, listing)
      [] cmd = "mapid" -> MapIDHandler(mem, from, msg.parts, listing)
      [] cmd = "adminlinkid" ->
            AdminLinkIDHandler(mem, from, msg.private, msg.parts, listing,
                               msg.me)
      [] cmd = "mappings" -> MappingsHandler(mem, from, msg.args, listing)

\* one update with an admin command: the middleware, then the handler of
\* the command, with the tables the middleware has left
Update(cmd, from, username, listing, msg) ==
    /\ pc = "idle"
    /\ Len(handled) < MaxUpdates
    /\ \E o \in UpdateOutcomes :
          LET mid == Middleware(from, username, o[1])
              res == Handler(cmd, mid.mem, from, msg, listing)
              writes == res.want # Nil
              failed == writes /\ o[2] # "ok"
              post == IF writes THEN res.want[1] ELSE mid.mem
          IN  /\ ~mid.persisted => o[1] = "ok"
              /\ ~writes => o[2] = "ok"
              /\ links' = post.links
              /\ mappings' = post.mappings
              /\ usernames' = post.usernames
              /\ disk' = IF writes
                         THEN FilesAfter(mid.disk, Encode(post), Stage(o[2]))
                         ELSE mid.disk
              /\ events' = events + (IF o[1] = "ok" THEN 0 ELSE 1)
                                  + (IF o[2] = "ok" THEN 0 ELSE 1)
              /\ handled' = Append(handled,
                                [cmd |-> cmd, from |-> from,
                                 listing |-> listing, check |-> res.check, op |-> res.op,
                                 reply |-> IF failed THEN "save_failed"
                                           ELSE res.reply,
                                 shown |-> res.shown,
                                 pre |-> Mem, post |-> post])
    /\ UNCHANGED <<calls, stories, baseURLOK, cancelled, tickVars, cycleVars,
                   hist, ticks, pc, listVars, clientCalls, split, wizardVars>>

\* the senders of the updates, with their Telegram usernames
Senders == {[ID |-> 1, Username |-> <<"a">>],
            [ID |-> 2, Username |-> <<"A">>]}
\* the words after the command in the messages
MapParts == {<<>>, << <<"0">>, <<"2">> >>, << <<"1">>, <<"0">> >>,
             << <<"1">>, <<"2">> >>}
\* the messages with /map: their words, and the sender of the message
\* they reply to
MapMessages ==
    {[parts |-> p, reply |-> Ptr(2)] : p \in MapParts}
    \cup {[parts |-> << <<"1">>, <<"2">> >>, reply |-> Nil]}
MapIDParts ==
    {<<>>, << <<"0">>, <<"2">>, <<"2">> >>, << <<"1">>, <<"0">>, <<"2">> >>,
     << <<"1">>, <<"2">>, <<"x">> >>, << <<"1">>, <<"2">>, <<"2">> >>,
     << <<"1">>, <<"@", "a">>, <<"2">> >>}
AdminLinkIDParts ==
    {<<>>, << <<"0">>, <<"2">>, <<"t">> >>, << <<"1">>, <<"0">>, <<"t">> >>,
     << <<"1">>, <<"2">>, <<"t">> >>, << <<"1">>, <<"@", "a">>, <<"t">> >>}
\* the messages with /adminlinkid: their words, and whether the chat is a
\* private one
AdminLinkIDMessages ==
    {[parts |-> p, private |-> TRUE] : p \in AdminLinkIDParts}
    \cup {[parts |-> << <<"1">>, <<"2">>, <<"t">> >>, private |-> FALSE]}
MappingsArgs == {<<>>, <<"0">>, <<"1">>}

Map(from, parts, reply, listing) ==
    Update("map", from.ID, from.Username, listing,
           [parts |-> parts, reply |-> reply])

MapID(from, parts, listing) ==
    Update("mapid", from.ID, from.Username, listing, [parts |-> parts])

AdminLinkID(from, private, parts, listing, me) ==
    Update("adminlinkid", from.ID, from.Username, listing,
           [private |-> private, parts |-> parts, me |-> me])

Mappings(from, args, listing) ==
    Update("mappings", from.ID, from.Username, listing, [args |-> args])

NextAdmin ==
    \/ \E from \in Senders : \E m \in MapMessages : \E listing \in Listings :
          Map(from, m.parts, m.reply, listing)
    \/ \E from \in Senders : \E parts \in MapIDParts : \E listing \in Listings :
          MapID(from, parts, listing)
    \/ \E from \in Senders : \E m \in AdminLinkIDMessages :
          \E listing \in Listings : \E me \in {Nil, Ptr(TaigaUserOf(2))} :
             AdminLinkID(from, m.private, m.parts, listing, me)
    \/ \E from \in Senders : \E args \in MappingsArgs :
          \E listing \in Listings : Mappings(from, args, listing)

\* the file the process has found at its start: none, or one with the
\* link, a mapping and the username of user 1
InitAdmin ==
    /\ \E f \in {NoFile, Written(Encode(SeedStore))} :
          /\ disk = [path |-> f, tmp |-> NoFile]
          /\ links = load(f).mem.links
          /\ mappings = load(f).mem.mappings
          /\ usernames = load(f).mem.usernames
    /\ baseURLOK = TRUE
    /\ InitProcess

SpecAdmin == InitAdmin /\ [][NextAdmin]_vars

TypeOK ==
    /\ pc \in {"idle", "loop", "assigned", "projects", "update", "stored",
             "done", "down", "fatal"}
    /\ DOMAIN links \subseteq Users
    /\ todo \subseteq DOMAIN snap
    /\ events \in 0..MaxEvents

\* ---------------------------------------------------------- properties
\* the comparison of the current user cycle has run
AfterCompare == pc \in {"update", "stored"}
\* the UpdateTaskState call of the current user cycle has returned
AfterStore == pc = "stored"

\* number of messages of a kind about item i in a bag of messages
Count(B, i, kind) ==
    LET S == {m \in BagToSet(B) : m.item = i /\ m.kind = kind}
    IN  IF S = {} THEN 0 ELSE BagCardinality([m \in S |-> B[m]])
CountTo(B, i, dest) ==
    LET S == {m \in BagToSet(B) : m.item = i /\ m.chat = dest}
    IN  IF S = {} THEN 0 ELSE BagCardinality([m \in S |-> B[m]])

\* the fields of a fetched story that make up its digest
StatusOf(us) == us.StatusExtraInfo.Name
AssigneeOf(us) == IF us.AssignedTo = Nil THEN 0 ELSE us.AssignedTo[1]
\* items known before the cycle and fetched in it
InBoth == DOMAIN Last(link) \cap DOMAIN allStories
\* work items returned by the successful fetches of the cycle
FetchedItems ==
    UNION {DOMAIN fetchLog[k].result : k \in {j \in 1..Len(fetchLog) : fetchLog[j].ok}}

\* C1: every change of status or assignee of an item between the
\* observations of two consecutive cycles of a linked user is delivered to
\* the user's destination exactly once.
C1_ExactlyOncePerChange ==
    AfterStore /\ prev.valid =>
        \A i \in DOMAIN prev.obs \cap DOMAIN allStories :
            (\/ StatusOf(prev.obs[i]) # StatusOf(allStories[i])
             \/ AssigneeOf(prev.obs[i]) # AssigneeOf(allStories[i]))
            => CountTo(delivered, i, Destination(link)) = 1

\* C2: a cycle that starts from an empty digest map sends nothing, and the
\* map it stores has one entry per distinct work item fetched.
C2_BaselineSuppression ==
    /\ AfterCompare /\ DOMAIN Last(link) = {} => emitted = EmptyBag
    /\ AfterStore /\ DOMAIN Last(link) = {} /\ wrote.ok =>
          Cardinality(DOMAIN wrote.m) = Cardinality(FetchedItems)

C2_Witness ==
    /\ AfterStore
    /\ DOMAIN Last(link) = {}
    /\ wrote.ok
    /\ Cardinality(FetchedItems) = NumItems
    /\ \E i \in FetchedItems : StatusOf(allStories[i]) = "Done"

\* C3: in a non-baseline cycle an item known before whose status differs
\* gets exactly one status message with the old and the new status, and no
\* assignee message, also when its assignee differs too.
C3_StatusChange ==
    AfterCompare /\ DOMAIN Last(link) # {} =>
        \A i \in InBoth :
            Last(link)[i].Status # StatusOf(allStories[i]) =>
                /\ Count(emitted, i, "status") = 1
                /\ Count(emitted, i, "assignee") = 0
                /\ \A m \in BagToSet(emitted) :
                      m.item = i =>
                          /\ m.args[3] = Last(link)[i].Status
                          /\ m.args[4] = StatusOf(allStories[i])

C3_Witness ==
    /\ AfterCompare
    /\ \E i \in InBoth :
          /\ Last(link)[i].Status # StatusOf(allStories[i])
          /\ Last(link)[i].AssignedTo # AssigneeOf(allStories[i])
          /\ Count(emitted, i, "status") = 1

\* C4: in a non-baseline cycle an item known before whose status is equal
\* and whose assignee differs (0 included) gets exactly one assignee message
\* and no status message.
C4_AssigneeChange ==
    AfterCompare /\ DOMAIN Last(link) # {} =>
        \A i \in InBoth :
            /\ Last(link)[i].Status = StatusOf(allStories[i])
            /\ Last(link)[i].AssignedTo # AssigneeOf(allStories[i])
            => /\ Count(emitted, i, "assignee") = 1
               /\ Count(emitted, i, "status") = 0

C4_Witness ==
    /\ AfterCompare
    /\ \E i \in InBoth :
          /\ Last(link)[i].Status = StatusOf(allStories[i])
          /\ Last(link)[i].AssignedTo # 0
          /\ AssigneeOf(allStories[i]) = 0
          /\ Count(emitted, i, "assignee") = 1

\* C5: a cycle that observes the same remote data as the user's previous
\* cycle sends nothing and stores the map the previous cycle stored.
C5_NoChangeIdempotence ==
    /\ AfterCompare /\ prev.valid /\ prev.obs = allStories => emitted = EmptyBag
    /\ AfterStore /\ prev.valid /\ prev.obs = allStories /\ wrote.ok =>
          wrote.m = prev.stored

C5_Witness ==
    /\ AfterStore
    /\ prev.valid
    /\ prev.obs = allStories
    /\ DOMAIN allStories # {}
    /\ wrote.ok
    /\ emitted = EmptyBag

\* C6: an item whose status and assignee are the same as in the user's
\* previous cycle gets no message, whatever happened to its subject and
\* reference number.
C6_OnlyDigestFields ==
    AfterCompare /\ prev.valid =>
        \A i \in DOMAIN prev.obs \cap DOMAIN allStories :
            /\ StatusOf(prev.obs[i]) = StatusOf(allStories[i])
            /\ AssigneeOf(prev.obs[i]) = AssigneeOf(allStories[i])
            => \A m \in BagToSet(emitted) : m.item # i

C6_Witness ==
    /\ AfterCompare
    /\ prev.valid
    /\ \E i \in DOMAIN prev.obs \cap DOMAIN allStories :
          /\ StatusOf(prev.obs[i]) = StatusOf(allStories[i])
          /\ AssigneeOf(prev.obs[i]) = AssigneeOf(allStories[i])
          /\ prev.obs[i].Subject # allStories[i].Subject
          /\ prev.obs[i].Ref # allStories[i].Ref
    /\ emitted = EmptyBag

\* C7: every message of a cycle is about an item that is in the previous
\* digest map and in the fetched union: an item in only one of them gets
\* none.
C7_AbsenceIsNoTransition ==
    AfterCompare =>
        \A m \in BagToSet(emitted) :
            m.item \in DOMAIN Last(link) /\ m.item \in DOMAIN allStories

C7_Witness ==
    /\ AfterCompare
    /\ DOMAIN Last(link) # {}
    /\ DOMAIN allStories \ DOMAIN Last(link) # {}
    /\ emitted = EmptyBag

C7_WitnessRemoved ==
    /\ AfterCompare
    /\ DOMAIN allStories # {}
    /\ DOMAIN Last(link) \ DOMAIN allStories # {}
    /\ emitted = EmptyBag

\* C8: after a cycle in which the fetch of a watched project failed, the
\* items of that project that were known before keep their last-known
\* digest in the stored map.
C8_DigestKeptOverFetchGap ==
    AfterStore /\ wrote.ok =>
        \A k \in 1..Len(fetchLog) :
            ~fetchLog[k].ok /\ fetchLog[k].src # 0 =>
                \A i \in DOMAIN Last(link) :
                    stories[i].Project = fetchLog[k].src /\ i \notin DOMAIN allStories
                    => /\ i \in DOMAIN wrote.m
                       /\ wrote.m[i] = Last(link)[i]

\* C9: in a cycle with a failed fetch every fetch is still attempted, the
\* union holds exactly the stories of the successful fetches (the latest
\* fetch winning), those items are compared, and the map stored has exactly
\* the successfully fetched items.
C9_PartialFailureIsolation ==
    AfterCompare /\ (\E k \in 1..Len(fetchLog) : ~fetchLog[k].ok) =>
        /\ Len(fetchLog) = 1 + Len(link.WatchedProjects)
        /\ fetchLog[1].src = 0
        /\ \A k \in 1..Len(link.WatchedProjects) :
              fetchLog[k + 1].src = link.WatchedProjects[k]
        /\ DOMAIN allStories = FetchedItems
        /\ \A k \in 1..Len(fetchLog) :
              \A i \in DOMAIN fetchLog[k].result :
                  (\A j \in (k + 1)..Len(fetchLog) : i \notin DOMAIN fetchLog[j].result)
                  => allStories[i] = fetchLog[k].result[i]
        /\ \A i \in FetchedItems \cap DOMAIN Last(link) :
              Last(link)[i].Status # StatusOf(allStories[i]) =>
                  Count(emitted, i, "status") = 1
        /\ AfterStore /\ wrote.ok =>
              /\ DOMAIN wrote.m = FetchedItems
              /\ \A i \in FetchedItems :
                    wrote.m[i] = [Status |-> StatusOf(allStories[i]),
                                  AssignedTo |-> AssigneeOf(allStories[i])]

C9_Witness ==
    /\ AfterStore
    /\ wrote.ok
    /\ Len(fetchLog) = 3
    /\ fetchLog[1].ok /\ DOMAIN fetchLog[1].result # {}
    /\ ~fetchLog[2].ok
    /\ fetchLog[3].ok /\ DOMAIN fetchLog[3].result # {}
    /\ \E i \in DOMAIN fetchLog[3].result : Count(emitted, i, "status") = 1

C9_WitnessAssigned ==
    /\ AfterStore
    /\ wrote.ok
    /\ Len(fetchLog) = 3
    /\ ~fetchLog[1].ok
    /\ \E i \in Items : stories[i].AssignedTo = Ptr(link.TaigaUserID)
    /\ DOMAIN wrote.m # {}

\* C10: when a tick is over, the loop has reached every user of the tick's
\* List snapshot, and has called UpdateTaskState for each of them unless the
\* client could not be constructed.
C10_EveryUserProcessed ==
    pc \in {"idle", "done"} /\ ticks > 0 =>
        /\ visited = DOMAIN snap
        /\ baseURLOK => updated = DOMAIN snap

C10_Witness ==
    /\ pc = "idle"
    /\ ticks > 0
    /\ ~baseURLOK
    /\ Cardinality(DOMAIN snap) = NumUsers
    /\ visited = DOMAIN snap

C10_WitnessWriteFailed ==
    /\ pc = "idle"
    /\ ticks > 0
    /\ baseURLOK
    /\ updated = DOMAIN snap
    /\ \E u \in DOMAIN snap : u \notin DOMAIN links

\* C11: a failure of the client construction or of the digest write of a
\* user's cycle leaves that cycle without any notification and leaves the
\* user's stored digest map as it was, and every other user of the tick
\* still gets its cycle.
C11_CrossUserIsolation ==
    /\ pc = "loop" /\ ~baseURLOK /\ visited # {} =>
          emitted = EmptyBag /\ ~wrote.called
    /\ AfterStore /\ wrote.err =>
          /\ emitted = EmptyBag
          /\ wrote.ok => wrote.m = wrote.before
    /\ pc = "idle" /\ ticks > 0 =>
          /\ visited = DOMAIN snap
          /\ baseURLOK => updated = DOMAIN snap

\* C12: the digest map a cycle stores for a user that still has a link is
\* exactly the map of the digests of the stories fetched in that cycle,
\* whatever the map held before and whether or not anything changed.
C12_FullReplacement ==
    AfterStore /\ wrote.ok =>
        /\ DOMAIN wrote.m = DOMAIN allStories
        /\ \A i \in DOMAIN allStories :
              wrote.m[i] = [Status |-> StatusOf(allStories[i]),
                            AssignedTo |-> AssigneeOf(allStories[i])]

C12_Witness ==
    /\ AfterStore
    /\ wrote.ok
    /\ emitted = EmptyBag
    /\ DOMAIN allStories # {}
    /\ DOMAIN wrote.before \ DOMAIN allStories # {}
    /\ DOMAIN wrote.m = DOMAIN allStories

\* C13: a cycle that follows a failed digest write of the same user reports
\* no change for an item whose status and assignee are what that user's
\* previous cycle observed.
C13_NoFalsePositiveAfterWriteFailure ==
    AfterCompare /\ prev.valid /\ prev.failed =>
        \A m \in BagToSet(emitted) :
            m.item \in DOMAIN prev.obs =>
                \/ StatusOf(prev.obs[m.item]) # StatusOf(allStories[m.item])
                \/ AssigneeOf(prev.obs[m.item]) # AssigneeOf(allStories[m.item])

\* ------------------------------------------- properties of the Store
\* the call returned to its caller: the process was not killed in it
Returned(c) == c.out \notin CrashPoints
\* the call got past the lookup of its link
PastLookup(c) == c.out # "notfound"
PerLinkMutators ==
    {"UpdateTaskState", "SetNotifyChat", "AddWatchedProject",
     "RemoveWatchedProject"}
Watched(mem, u) == mem.links[u].WatchedProjects
WatchedSet(mem, u) == {Watched(mem, u)[k] : k \in 1..Len(Watched(mem, u))}
NoDuplicates(s) == \A i, j \in 1..Len(s) : s[i] = s[j] => i = j

\* C14: a call of a mutating method that returns an error leaves the tables
\* that get, list, getMapping and resolveHandle read as they were before the
\* call, and a call whose persist succeeds leaves a file that loads to the
\* tables it set.
C14_AtomicFailure ==
    \A k \in 1..Len(calls) :
        LET c == calls[k]
        IN  Returned(c) =>
                /\ c.err => c.post = c.pre
                /\ c.out = "ok" =>
                      load(c.after.path) = [ok |-> TRUE, mem |-> c.post]

\* C15: the durable file is absent or holds a whole encoding at every
\* moment, a Store loads from it, and after every call, also one the
\* process was killed in, it is the file from before the call or the
\* encoding of the tables the call set.
C15_AtomicPersistence ==
    /\ disk.path.state \in {"absent", "complete"}
    /\ load(disk.path).ok
    /\ pc # "fatal"
    /\ \A k \in 1..Len(calls) :
          LET c == calls[k]
          IN  \/ c.after.path = c.before.path
              \/ c.after.path = Written(Encode(c.want))

C15_Witness ==
    /\ pc = "down"
    /\ LET c == calls[Len(calls)]
       IN  /\ c.out = "crash_written"
           /\ disk.tmp = Written(Encode(c.want))
           /\ disk.path = c.before.path
           /\ disk.path.state = "complete"
           /\ load(disk.path).mem = c.pre
           /\ c.want # c.pre

C15_WitnessPartial ==
    /\ pc = "idle"
    /\ Len(calls) > 0
    /\ calls[Len(calls)].out = "crash_partial"
    /\ disk.tmp.state = "partial"
    /\ Mem = calls[Len(calls)].pre
    /\ DOMAIN links # {}

\* C16: while every call made so far has returned without an error, a Store
\* loaded from the file has the links, the mappings and the usernames of the
\* Store in memory.
C16_DurableAcrossRestart ==
    /\ pc = "idle"
    /\ \A k \in 1..Len(calls) : Returned(calls[k]) /\ ~calls[k].err
    => load(disk.path) = [ok |-> TRUE, mem |-> Mem]

C16_Witness ==
    /\ pc = "idle"
    /\ Len(calls) = MaxCalls
    /\ \A k \in 1..Len(calls) : calls[k].out = "ok"
    /\ \E k \in 1..Len(calls) : calls[k].op = "UpsertTelegramUsername"
    /\ \E k \in 1..Len(calls) : calls[k].op = "SetProjectUserMapping"
    /\ calls[1].pre = EmptyStore
    /\ load(disk.path).mem = Mem

C16_WitnessLinks ==
    /\ pc = "idle"
    /\ Len(calls) = MaxCalls
    /\ \A k \in 1..Len(calls) : calls[k].out = "ok"
    /\ \E k \in 1..Len(calls) : calls[k].op = "RemoveWatchedProject"
    /\ \E u \in DOMAIN links :
          /\ Len(links[u].WatchedProjects) = 0
          /\ links[u].NotifyChatID # Nil
    /\ DOMAIN usernames # {}
    /\ load(disk.path).mem = Mem

\* C17: every link of a running Store has a digest map that is not nil, and
\* the link get returns after Save is the link saved, with a nil digest map
\* made an empty one.
C17_DigestsNeverNil ==
    /\ pc = "idle" => \A u \in DOMAIN links : links[u].LastTaskStates # Nil
    /\ \A k \in 1..Len(calls) :
          LET c == calls[k]
          IN  c.op = "Save" /\ Returned(c) =>
                  /\ c.id \in DOMAIN c.post.links
                  /\ c.post.links[c.id] =
                        [c.arg EXCEPT !.LastTaskStates =
                            IF @ = Nil THEN Ptr(EmptyMap) ELSE @]

\* C18: a per-link mutator called for a user without a link returns the
\* not-found error and leaves the tables and the files as they were.
C18_NotFoundLeavesStore ==
    \A k \in 1..Len(calls) :
        LET c == calls[k]
        IN  c.op \in PerLinkMutators /\ c.id \notin DOMAIN c.pre.links =>
                /\ c.err
                /\ c.out = "notfound"
                /\ c.post = c.pre
                /\ c.after = c.before

C18_Witness ==
    /\ Len(calls) = MaxCalls
    /\ calls[1].op = "AddWatchedProject"
    /\ calls[1].out = "notfound"
    /\ DOMAIN calls[1].pre.links # {}
    /\ calls[2].op = "UpdateTaskState"
    /\ calls[2].out = "notfound"
    /\ Mem = calls[1].pre

\* C19: Delete leaves the user without a link and every other link, the
\* mappings and the usernames as they were; it never returns the not-found
\* error, and for a user without a link it changes nothing.
C19_Delete ==
    \A k \in 1..Len(calls) :
        LET c == calls[k]
        IN  c.op = "Delete" /\ Returned(c) =>
                /\ DOMAIN c.post.links = DOMAIN c.pre.links \ {c.id}
                /\ \A x \in DOMAIN c.post.links :
                      c.post.links[x] = c.pre.links[x]
                /\ c.post.mappings = c.pre.mappings
                /\ c.post.usernames = c.pre.usernames
                /\ PastLookup(c)
                /\ c.out = "ok" => ~c.err
                /\ c.id \notin DOMAIN c.pre.links => c.post = c.pre

C19_Witness ==
    /\ pc = "idle"
    /\ Len(calls) = MaxCalls
    /\ LET c == calls[Len(calls)]
       IN  /\ c.op = "Delete"
           /\ c.out = "ok"
           /\ c.id \in DOMAIN c.pre.links
           /\ c.pre.links[c.id].LastTaskStates = Ptr(SomeDigests)
           /\ Cardinality(DOMAIN c.pre.links) = NumUsers
           /\ DOMAIN c.pre.usernames # {}
           /\ DOMAIN c.pre.mappings # {}
           /\ c.id \notin DOMAIN links

C19_WitnessAbsent ==
    /\ pc = "idle"
    /\ Len(calls) = MaxCalls
    /\ calls[1].op = "Delete" /\ calls[2].op = "Delete"
    /\ calls[1].id = calls[2].id
    /\ calls[1].id \in DOMAIN calls[1].pre.links
    /\ calls[2].out = "ok"
    /\ ~calls[2].err
    /\ Mem = calls[2].pre

\* C20 as stated: adding a watched project changes nothing, no list ever
\* holds a project twice, removing an unwatched project changes nothing, and
\* an add followed by the remove of the same project gives back the set of
\* before the add.
C20_AddRemoveRestores ==
    /\ pc = "idle" =>
          \A u \in DOMAIN links : NoDuplicates(links[u].WatchedProjects)
    /\ \A k \in 1..Len(calls) :
          LET c == calls[k]
          IN  /\ c.op = "AddWatchedProject" /\ Returned(c) /\ PastLookup(c)
                 /\ InSeq(Watched(c.pre, c.id), c.arg)
                 => c.post = c.pre
              /\ c.op = "RemoveWatchedProject" /\ Returned(c) /\ PastLookup(c)
                 /\ ~InSeq(Watched(c.pre, c.id), c.arg)
                 => c.post = c.pre
    /\ \A k \in 1..(Len(calls) - 1) :
          LET a == calls[k]
              r == calls[k + 1]
          IN  /\ a.op = "AddWatchedProject" /\ Returned(a) /\ PastLookup(a)
              /\ r.op = "RemoveWatchedProject" /\ Returned(r) /\ PastLookup(r)
              /\ r.id = a.id /\ r.arg = a.arg
              /\ r.pre = a.post
              => WatchedSet(r.post, r.id) = WatchedSet(a.pre, a.id)

\* C20 amended: adding a watched project changes nothing, no list ever
\* holds a project twice, removing an unwatched project changes nothing, and
\* an add followed by the remove of the same project gives the set of before
\* the add without that project, which is the set of before the add when the
\* project was not watched then.
C20_AddRemoveSetOps ==
    /\ pc = "idle" =>
          \A u \in DOMAIN links : NoDuplicates(links[u].WatchedProjects)
    /\ \A k \in 1..Len(calls) :
          LET c == calls[k]
          IN  /\ c.op = "AddWatchedProject" /\ Returned(c) /\ PastLookup(c)
                 /\ InSeq(Watched(c.pre, c.id), c.arg)
                 => c.post = c.pre
              /\ c.op = "RemoveWatchedProject" /\ Returned(c) /\ PastLookup(c)
                 /\ ~InSeq(Watched(c.pre, c.id), c.arg)
                 => c.post = c.pre
    /\ \A k \in 1..(Len(calls) - 1) :
          LET a == calls[k]
              r == calls[k + 1]
          IN  /\ a.op = "AddWatchedProject" /\ Returned(a) /\ PastLookup(a)
              /\ r.op = "RemoveWatchedProject" /\ Returned(r) /\ PastLookup(r)
              /\ r.id = a.id /\ r.arg = a.arg
              /\ r.pre = a.post
              => /\ WatchedSet(r.post, r.id) = WatchedSet(a.pre, a.id) \ {a.arg}
                 /\ a.arg \notin WatchedSet(a.pre, a.id) =>
                       WatchedSet(r.post, r.id) = WatchedSet(a.pre, a.id)

C20_Witness ==
    /\ pc = "idle"
    /\ Len(calls) = MaxCalls
    /\ calls[1].op = "AddWatchedProject" /\ calls[1].out = "ok"
    /\ calls[2].op = "RemoveWatchedProject" /\ calls[2].out = "ok"
    /\ calls[1].id = calls[2].id
    /\ calls[1].arg = calls[2].arg
    /\ calls[1].arg \notin WatchedSet(calls[1].pre, calls[1].id)
    /\ WatchedSet(calls[1].pre, calls[1].id) # {}
    /\ WatchedSet(Mem, calls[1].id) = WatchedSet(calls[1].pre, calls[1].id)

C20_WitnessWatched ==
    /\ pc = "idle"
    /\ Len(calls) = MaxCalls
    /\ calls[1].op = "AddWatchedProject" /\ calls[1].out = "ok"
    /\ calls[1].arg \in WatchedSet(calls[1].pre, calls[1].id)
    /\ calls[1].post = calls[1].pre
    /\ calls[2].op = "RemoveWatchedProject" /\ calls[2].out = "ok"
    /\ calls[2].id = calls[1].id
    /\ calls[2].arg \notin WatchedSet(calls[2].pre, calls[2].id)
    /\ calls[2].post = calls[2].pre

\* ------------------------------- mapping table and username index
MappingOps == {"SetProjectUserMapping", "RemoveProjectUserMapping"}
\* whether a call of a mapping method passes an id that is not positive
NonPositiveID(c) ==
    \/ c.arg[1] <= 0
    \/ c.id <= 0
    \/ (c.op = "SetProjectUserMapping" /\ c.arg[2] <= 0)

\* C21: a call of SetProjectUserMapping or RemoveProjectUserMapping with a
\* project id, a Telegram id or a Taiga id that is not positive returns a
\* validation error and leaves the mapping table as it was.
C21_ValidatesPositiveIDs ==
    \A k \in 1..Len(calls) :
        LET c == calls[k]
        IN  (c.op \in MappingOps /\ NonPositiveID(c)) =>
                /\ c.out = "invalid"
                /\ c.err
                /\ c.post.mappings = c.pre.mappings

NoEmptyBucket(table) == \A p \in DOMAIN table : DOMAIN table[p] # {}
\* a call that went past the checks of its method and returned
PastChecks(c) == Returned(c) /\ c.out \notin {"invalid", "notfound"}

\* C22: after SetProjectUserMapping(p, u, r) has passed its checks,
\* GetProjectUserMapping(p, u) returns r and ListProjectUserMappings(p) has
\* u -> r; after RemoveProjectUserMapping(p, u) GetProjectUserMapping(p, u)
\* finds nothing; and no project of the mapping table has an empty bucket,
\* after any call and after a restart.
C22_MappingRoundTrip ==
    /\ NoEmptyBucket(mappings)
    /\ \A k \in 1..Len(calls) :
          LET c == calls[k]
              p == c.arg[1]
              got == GetProjectUserMapping(c.post.mappings, p, c.id)
              lst == ListProjectUserMappings(c.post.mappings, p)
          IN  /\ (c.op = "SetProjectUserMapping" /\ PastChecks(c)) =>
                    /\ got = Ptr(c.arg[2])
                    /\ c.id \in DOMAIN lst
                    /\ lst[c.id] = c.arg[2]
              /\ (c.op = "RemoveProjectUserMapping" /\ PastChecks(c)) =>
                    got = Nil
              /\ Returned(c) => NoEmptyBucket(c.post.mappings)

\* a mapping is set and read back, and the last mapping of a project is
\* removed and takes the bucket with it
C22_Witness ==
    /\ Len(calls) = 2
    /\ calls[1].op = "SetProjectUserMapping"
    /\ calls[1].out = "ok"
    /\ GetProjectUserMapping(calls[1].post.mappings, calls[1].arg[1],
                             calls[1].id) = Ptr(calls[1].arg[2])
    /\ calls[2].op = "RemoveProjectUserMapping"
    /\ calls[2].out = "ok"
    /\ calls[2].arg[1] = calls[1].arg[1]
    /\ calls[2].id = calls[1].id
    /\ calls[2].arg[1] \in DOMAIN calls[2].pre.mappings
    /\ calls[2].arg[1] \notin DOMAIN mappings

\* a removal that leaves another mapping in the bucket
C22_WitnessKept ==
    /\ Len(calls) = 2
    /\ calls[2].op = "RemoveProjectUserMapping"
    /\ calls[2].out = "ok"
    /\ calls[2].arg[1] \in DOMAIN mappings
    /\ calls[2].pre.mappings # mappings

\* the handles that make the same key as h
SameKey(h) == {h2 \in RawHandles : HandleKey(h2) = HandleKey(h)}
\* the index a Store loads from the durable file a call has left
ReloadedUsernames(c) == load(c.after.path).mem.usernames
\* every call so far has returned without an error
AllSucceeded(k) == \A j \in 1..k : Returned(calls[j]) /\ ~calls[j].err

\* C23: after UpsertTelegramUsername(h1, id) with a handle that is not empty
\* and an id that is not zero has returned without an error,
\* ResolveTelegramHandle(h2) returns id for every h2 that is equal to h1
\* after trimming spaces, stripping a leading @ and lower-casing, in the
\* Store that made the call and in a Store loaded from the file it left.
C23_HandleLookup ==
    \A k \in 1..Len(calls) :
        LET c == calls[k]
        IN  (/\ c.op = "UpsertTelegramUsername"
             /\ Returned(c) /\ ~c.err
             /\ TrimSpace(c.arg) # <<>>
             /\ c.id # 0) =>
                \A h2 \in SameKey(c.arg) :
                    /\ ResolveTelegramHandle(c.post.usernames, h2) = Ptr(c.id)
                    /\ load(c.after.path).ok
                    /\ ResolveTelegramHandle(ReloadedUsernames(c), h2)
                          = Ptr(c.id)

\* what holds of the lookup: for a handle with a key that is not empty every
\* handle of the same key resolves to the id in the Store that made the
\* call, and in a reloaded Store when no call before has failed
C23_LookupOfKeys ==
    \A k \in 1..Len(calls) :
        LET c == calls[k]
        IN  (/\ c.op = "UpsertTelegramUsername"
             /\ Returned(c) /\ ~c.err
             /\ HandleKey(c.arg) # <<>>
             /\ c.id # 0) =>
                \A h2 \in SameKey(c.arg) :
                    /\ ResolveTelegramHandle(c.post.usernames, h2) = Ptr(c.id)
                    /\ AllSucceeded(k) =>
                          /\ load(c.after.path).ok
                          /\ ResolveTelegramHandle(ReloadedUsernames(c), h2)
                                = Ptr(c.id)

\* C24: UpsertTelegramUsername with an empty handle, with a zero id, or with
\* a handle that resolves to the id already returns nil, leaves the three
\* tables as they were and does not call persist (the files are untouched).
C24_UpsertNoOp ==
    \A k \in 1..Len(calls) :
        LET c == calls[k]
        IN  (/\ c.op = "UpsertTelegramUsername"
             /\ \/ TrimSpace(c.arg) = <<>>
                \/ c.id = 0
                \/ ResolveTelegramHandle(c.pre.usernames, c.arg)
                      = Ptr(c.id)) =>
                /\ c.out = "noop"
                /\ ~c.err
                /\ c.post = c.pre
                /\ c.after = c.before

\* an upsert of a pair the index already holds, under another spelling
C24_Witness ==
    \E k \in 1..Len(calls) :
        /\ calls[k].op = "UpsertTelegramUsername"
        /\ calls[k].id # 0
        /\ calls[k].arg = <<"@", "A">>
        /\ <<"a">> \in DOMAIN calls[k].pre.usernames
        /\ calls[k].pre.usernames[<<"a">>] = calls[k].id
        /\ calls[k].out = "noop"

\* an upsert of a handle of spaces, and one of a zero id
C24_WitnessSkipped ==
    /\ Len(calls) = 2
    /\ calls[1].op = "UpsertTelegramUsername"
    /\ calls[1].arg = <<" ">>
    /\ calls[1].id # 0
    /\ calls[2].op = "UpsertTelegramUsername"
    /\ calls[2].arg = <<"a">>
    /\ calls[2].id = 0
    /\ <<"a">> \notin DOMAIN usernames

\* C25: a key of the username index stays a key of it: every call of a
\* Store method that returns, Delete of the link among them, keeps every
\* key, and so does every step, a restart included, as long as no call has
\* failed or been cut short.
C25_IndexOnlyGrows ==
    [][(\/ (calls' # calls /\ Returned(calls'[Len(calls')]))
        \/ \A j \in 1..Len(calls') :
              Returned(calls'[j]) /\ ~calls'[j].err)
       => DOMAIN usernames \subseteq DOMAIN usernames']_vars

\* a handle is indexed for a user, the link of the user is deleted, and the
\* handle still resolves
C25_Witness ==
    /\ Len(calls) = 2
    /\ calls[1].op = "UpsertTelegramUsername"
    /\ calls[1].out = "ok"
    /\ calls[1].arg = <<"@">>
    /\ calls[2].op = "Delete"
    /\ calls[2].out = "ok"
    /\ calls[2].id = calls[1].id
    /\ calls[2].id \in DOMAIN calls[2].pre.links
    /\ calls[2].id \notin DOMAIN links
    /\ ResolveTelegramHandle(usernames, <<"@">>) = Ptr(calls[1].id)

\* the entry of a handle is overwritten with another id
C25_WitnessOverwrite ==
    \E k \in 1..Len(calls) :
        /\ calls[k].op = "UpsertTelegramUsername"
        /\ calls[k].out = "ok"
        /\ HandleKey(calls[k].arg) \in DOMAIN calls[k].pre.usernames
        /\ usernames[HandleKey(calls[k].arg)] = calls[k].id

\* ------------------------------------------------- Store.List
\* a step of the caller on a link it holds
CallerStep ==
    /\ calls' = calls
    /\ listed' # listed
    /\ DOMAIN listed # {}
    /\ DOMAIN listed' = DOMAIN listed
\* a call of a method of the Store that returns
StoreStep == calls' # calls /\ Returned(calls'[Len(calls')])

\* C26: an assignment of the caller into a link List has returned, into its
\* digest map or its list of watched projects, leaves the links of the Store
\* as they were, and a call of a method of the Store leaves the links the
\* caller holds as they were.
C26_ListByValue ==
    [][/\ CallerStep => links' = links
       /\ StoreStep => listed' = listed]_vars

\* what holds of List: a method of the Store never changes a link a caller
\* holds, and an assignment of the caller changes no link of the Store of
\* which it does not share the map or the array it writes
C26_SnapshotStable ==
    [][/\ StoreStep => listed' = listed
       /\ (CallerStep /\ links' # links) =>
             \E u \in DOMAIN listed :
                 /\ listed'[u] # listed[u]
                 /\ \/ <<u, "LastTaskStates">> \in shared
                    \/ <<u, "WatchedProjects">> \in shared]_vars

\* ------------------------------------------------- the legacy layout
IsLegacy(file) == file.state = "complete" /\ file.data.by_id # Nil
IsThreeTables(file) ==
    /\ file.state = "complete"
    /\ file.data.by_id = Nil
    /\ file.data.links # Nil
\* the links a legacy file holds
LegacyLinks(file) ==
    [u \in DOMAIN file.data.by_id[1] |-> linkOfJSON(file.data.by_id[1][u])]

\* C27: a file that is a plain map of telegram id to link loads: the Store
\* started on it holds those links, no mapping and no handle; and a call of
\* a mutating method whose persist succeeds leaves a file of the three-table
\* layout that holds the tables of the Store.
C27_LegacyLayout ==
    /\ IsLegacy(disk.path) =>
          /\ load(disk.path).ok
          /\ load(disk.path).mem =
                [links |-> LegacyLinks(disk.path), mappings |-> EmptyMap,
                 usernames |-> EmptyMap]
          /\ pc # "fatal"
          /\ (pc = "idle" /\ calls = <<>>) => Mem = load(disk.path).mem
    /\ \A k \in 1..Len(calls) :
          calls[k].out = "ok" =>
              /\ IsThreeTables(calls[k].after.path)
              /\ load(calls[k].after.path).ok
              /\ load(calls[k].after.path).mem = calls[k].post

\* the Store is started on a legacy file that holds a link, and its first
\* call rewrites the file
C27_Witness ==
    /\ Len(calls) = 1
    /\ calls[1].out = "ok"
    /\ IsLegacy(calls[1].before.path)
    /\ DOMAIN calls[1].pre.links # {}
    /\ calls[1].pre.links = LegacyLinks(calls[1].before.path)
    /\ IsThreeTables(disk.path)
    /\ pc = "idle"

\* ------------------------------------------------- one lock
\* the UpdateTaskState call of pollNotifications
DigestStep == pc = "update" /\ pc' = "stored"
\* a step of a front-end handler that sets the watched projects or the
\* destination of the link of x and is not the Save of a new link
WatchStep(x) ==
    /\ pc' = pc
    /\ x \in DOMAIN links /\ x \in DOMAIN links'
    /\ \/ links'[x].WatchedProjects # links[x].WatchedProjects
       \/ links'[x].NotifyChatID # links[x].NotifyChatID
    /\ links'[x] # LinksSave(links, NewLink(x, TaigaUserOf(x)))[x]

\* C28: each call of a method of the Store acts on the tables as the calls
\* before it have left them. The UpdateTaskState call of a cycle keeps the
\* set of links, every other link, and of the link of its user every field
\* as it is in the Store at the call, not in the List snapshot of the tick,
\* but the digest map, which it sets to the map of the cycle; it keeps the
\* mappings and the handles, and the file it writes holds those tables. A
\* handler that sets the watched projects or the destination of a link
\* between the List and the UpdateTaskState keeps the digest map of the link.
C28_SerializedByLock ==
    [][/\ DigestStep =>
             LET u == link.TelegramID
             IN  /\ DOMAIN links' = DOMAIN links
                 /\ \A x \in DOMAIN links \ {u} : links'[x] = links[x]
                 /\ u \in DOMAIN links =>
                       links'[u] = [links[u] EXCEPT
                                       !.LastTaskStates = Ptr(newDigests)]
                 /\ mappings' = mappings
                 /\ usernames' = usernames
                 /\ (wrote'.ok /\ ~wrote'.err) =>
                       load(disk'.path).mem = Mem'
       /\ \A x \in Users :
             WatchStep(x) =>
                 links'[x].LastTaskStates = links[x].LastTaskStates]_vars

\* a handler has changed the watched projects of the user between the List
\* of the tick and the UpdateTaskState of the cycle, and the link has both
\* the digests of the cycle and the change
C28_Witness ==
    /\ AfterStore
    /\ wrote.ok
    /\ ~wrote.err
    /\ link.TelegramID \in DOMAIN links
    /\ links[link.TelegramID].WatchedProjects # link.WatchedProjects
    /\ Last(links[link.TelegramID]) = newDigests
    /\ DOMAIN newDigests # {}

\* the same for the destination
C28_WitnessDestination ==
    /\ AfterStore
    /\ wrote.ok
    /\ link.TelegramID \in DOMAIN links
    /\ links[link.TelegramID].NotifyChatID # link.NotifyChatID
    /\ Last(links[link.TelegramID]) = newDigests

\* ------------------------------------------------- cancellation
\* C29: once ctx.Done() is closed no tick begins: the select of
\* pollNotifications does not take the case of the ticker.
C29_NoTickAfterCancel ==
    [][cancelled => ~(pc = "idle" /\ pc' = "loop")]_vars

\* what holds of the cancellation: it does not stop a tick that has begun
\* (the cycle of every user of the snapshot is still reached), and the
\* return is taken at the select only
C29_ExitAtSelectOnly ==
    [][(pc # "done" /\ pc' = "done") => (pc = "idle" /\ cancelled)]_vars

\* ------------------------------------------------- credential refresh
\* the path of the refresh endpoint
RefreshPath == "auth/refresh"
Unauthorized(x) == x.response # NoResponse /\ x.response.status = 401
Succeeded(x) == x.response # NoResponse /\ x.response.status < 300

\* C30: a call of the client with a token whose request is answered 401
\* sends one POST to the refresh endpoint; when that succeeds it sends the
\* request once more with another token, returns the result of that request
\* and calls the callback of its caller once; when the refresh fails it
\* returns the error of the first request; it sends nothing further.
C30_RefreshOnUnauthorized ==
    \A k \in 1..Len(clientCalls) :
        LET c == clientCalls[k]
            x == c.exchanges
        IN  (c.authToken # "" /\ Unauthorized(x[1])) =>
                /\ Len(x) \in {2, 3}
                /\ x[2].request.method = "POST"
                /\ x[2].request.path = RefreshPath
                /\ IF Succeeded(x[2])
                   THEN /\ Len(x) = 3
                        /\ x[3].request.method = x[1].request.method
                        /\ x[3].request.path = x[1].request.path
                        /\ x[3].request.authorization # Nil
                        /\ x[3].request.authorization
                              # x[1].request.authorization
                        /\ c.err = DoError(x[3].response, c.hasOut)
                        /\ Len(c.callbacks) = 1
                   ELSE /\ Len(x) = 2
                        /\ c.err = "status"
                        /\ Len(c.callbacks) = 0

\* what Client.do does: one request for a call, with the token of the
\* client, and the response to it decides the error
C30_OneRequest ==
    \A k \in 1..Len(clientCalls) :
        LET c == clientCalls[k]
        IN  /\ Len(c.exchanges) = 1
            /\ c.exchanges[1].request =
                  Request(c.method, c.path, c.authToken)
            /\ c.callbacks = <<>>
            /\ Unauthorized(c.exchanges[1]) => c.err = "status"

\* ------------------------------------------- Client.ListMemberships
\* strconv.FormatInt(projectID, 10) of the ids a caller passes
FormatInt(n) ==
    CASE n = 0 -> <<"0">> [] n = 1 -> <<"1">> [] n = 2 -> <<"2">>
      [] n = 3 -> <<"3">> [] n = -1 -> <<"-", "1">>

\* the JSON object of a membership in the body of a response
jsonMembership(user, isAdmin, isOwner) ==
    [user |-> user, is_admin |-> isAdmin, is_owner |-> isOwner]
\* json.Decode of the object into a Membership
membershipOfJSON(j) == Membership(j.user, j.is_admin, j.is_owner)
\* the arrays a server sends
MembershipBodies ==
    {<<>>,
     <<jsonMembership(1, TRUE, FALSE)>>,
     <<jsonMembership(1, FALSE, FALSE), jsonMembership(2, FALSE, TRUE)>>,
     <<jsonMembership(2, FALSE, TRUE), jsonMembership(1, FALSE, FALSE)>>}

\* mutant: the check of the project id is left out
InvalidProjectNever(projectID) == FALSE

\* ListMemberships: if projectID <= 0
InvalidProject(projectID) == projectID <= 0

\* Client.ListMemberships: no request for an id that is not positive, else
\* one GET of memberships?project=<id> through Client.do, whose decoded
\* array is returned when do returns no error
ListMemberships(authToken, projectID) ==
    /\ Len(clientCalls) < MaxCalls
    /\ IF InvalidProject(projectID)
       THEN clientCalls' = Append(clientCalls,
               [method |-> "GET", path |-> "memberships",
                authToken |-> authToken, hasOut |-> TRUE,
                projectID |-> projectID, exchanges |-> <<>>,
                callbacks |-> <<>>, err |-> "invalid", result |-> Nil])
       ELSE \E resp \in Responses : \E body \in MembershipBodies :
               clientCalls' = Append(clientCalls,
                   [method |-> "GET", path |-> "memberships",
                    authToken |-> authToken, hasOut |-> TRUE,
                    projectID |-> projectID,
                    exchanges |->
                       <<[request |->
                             Request("GET", "memberships", authToken),
                          query |-> [project |-> FormatInt(projectID)],
                          response |-> resp,
                          body |-> IF resp # NoResponse /\ resp.decodes
                                   THEN Ptr(body) ELSE Nil]>>,
                    callbacks |-> <<>>,
                    err |-> DoError(resp, TRUE),
                    result |->
                       IF DoError(resp, TRUE) = "nil"
                       THEN Ptr([k \in 1..Len(body) |->
                                    membershipOfJSON(body[k])])
                       ELSE Nil])
    /\ UNCHANGED <<storeVars, calls, stories, baseURLOK, cancelled, pc,
                   tickVars, cycleVars, hist, ticks, events, listVars>>
    /\ UNCHANGED uiVars

NextMemberships ==
    \E authToken \in AuthTokens : \E projectID \in ProjectArgs :
        ListMemberships(authToken, projectID)

SpecMemberships == InitClient /\ [][NextMemberships]_vars

\* ------------------------------------------------------- splitMessage
\* the texts and the limits splitMessage is called with
Chars == {"a", " ", "\n"}
RECURSIVE TextsOfLen(_)
TextsOfLen(n) ==
    IF n = 0 THEN {<<>>}
    ELSE {Append(s, c) : s \in TextsOfLen(n - 1), c \in Chars}
Texts == UNION {TextsOfLen(n) : n \in 0..MaxText}
Limits == {-1, 0, 1, 2, 3}

\* mutant: the cut is made after the first newline of the window
CutFirst(runes, limit) ==
    LET nl == {i \in 1..limit : runes[i] = "\n"}
    IN  IF nl = {} THEN limit ELSE CHOOSE i \in nl : \A j \in nl : i <= j

\* the cut of one round of splitMessage: the length of the window, or the
\* place behind the last newline of the window
Cut(runes, limit) ==
    LET nl == {i \in 1..limit : runes[i] = "\n"}
    IN  IF nl = {} THEN limit ELSE CHOOSE i \in nl : \A j \in nl : i >= j

\* the loop of splitMessage; cuts notes the text left and the cut of each
\* round
RECURSIVE splitLoop(_, _, _, _)
splitLoop(runes, limit, parts, cuts) ==
    IF Len(runes) = 0 THEN [parts |-> parts, cuts |-> cuts]
    ELSE IF Len(runes) <= limit
         THEN [parts |-> Append(parts, TrimSpace(runes)), cuts |-> cuts]
    ELSE LET cut == Cut(runes, limit)
             chunk == TrimSpace(SubSeq(runes, 1, cut))
         IN  splitLoop(SubSeq(runes, cut + 1, Len(runes)), limit,
                       IF chunk # <<>> THEN Append(parts, chunk) ELSE parts,
                       Append(cuts, [rest |-> runes, cut |-> cut]))

\* splitMessage(text, limit)
splitMessage(text, limit) ==
    IF limit <= 0 THEN [parts |-> <<text>>, cuts |-> <<>>]
    ELSE IF Len(text) <= limit THEN [parts |-> <<text>>, cuts |-> <<>>]
    ELSE splitLoop(text, limit, <<>>, <<>>)

\* a call of splitMessage with the arguments drawn at the start
SplitMessage ==
    /\ ~split.called
    /\ split' = [split EXCEPT
                    !.called = TRUE,
                    !.parts = splitMessage(split.text, split.limit).parts,
                    !.cuts = splitMessage(split.text, split.limit).cuts]
    /\ UNCHANGED <<storeVars, calls, stories, baseURLOK, cancelled, pc,
                   tickVars, cycleVars, hist, ticks, events, listVars,
                   clientCalls, handled, wizardVars>>

InitSplit ==
    /\ links = EmptyStore.links
    /\ mappings = EmptyStore.mappings
    /\ usernames = EmptyStore.usernames
    /\ disk = [path |-> NoFile, tmp |-> NoFile]
    /\ baseURLOK = TRUE
    /\ pc = "idle"
    /\ \E text \in Texts : \E limit \in Limits :
          split = [NoSplit EXCEPT !.text = text, !.limit = limit]
    /\ InitFields

NextSplit == SplitMessage

SpecSplit == InitSplit /\ [][NextSplit]_vars

\* -------------------------------------------- the item-creation wizard
\* The senders of this part have no Telegram username, so the middleware's
\* UpsertTelegramUsername returns at once and the Store stays as it is.
\* newWizardState; session numbers the states put into the table: a state
\* set by new:proj is a new session, one set by new:assignee goes on with
\* the session of the entry it replaces
WizardState(projectID, assigneeID, awaitingText, session) ==
    [ProjectID |-> projectID, AssigneeID |-> assigneeID,
     AwaitingText |-> awaitingText, session |-> session]

\* newWizard[telegramID] = state
WizardPut(table, telegramID, state) ==
    [u \in DOMAIN table \cup {telegramID} |->
        IF u = telegramID THEN state ELSE table[u]]
\* delete(newWizard, telegramID)
WizardDelete(table, telegramID) ==
    [u \in DOMAIN table \ {telegramID} |-> table[u]]

\* the callback new:proj:<projectID>
CallbackProject(telegramID, projectID) ==
    /\ pc = "idle"
    /\ wizardSeq < MaxSessions
    /\ wizardSeq' = wizardSeq + 1
    /\ newWizard' = WizardPut(newWizard, telegramID,
                        WizardState(projectID, Nil, FALSE, wizardSeq + 1))
    /\ UNCHANGED <<textHandlers, createdStories>>
    /\ UNCHANGED <<storeVars, calls, stories, baseURLOK, cancelled, pc,
                   tickVars, cycleVars, hist, ticks, events, listVars,
                   clientCalls, handled, split>>

\* the callback new:assignee:<projectID>:<assigneeRaw>
CallbackAssignee(telegramID, projectID, assigneeRaw) ==
    /\ pc = "idle"
    /\ telegramID \in DOMAIN newWizard \/ wizardSeq < MaxSessions
    /\ LET known == telegramID \in DOMAIN newWizard
           session == IF known THEN newWizard[telegramID].session
                      ELSE wizardSeq + 1
           state == WizardState(projectID,
                        IF assigneeRaw # 0 THEN Ptr(assigneeRaw) ELSE Nil,
                        TRUE, session)
       IN  /\ wizardSeq' = IF known THEN wizardSeq ELSE wizardSeq + 1
           /\ newWizard' = WizardPut(newWizard, telegramID, state)
           /\ newWizard' # newWizard
    /\ UNCHANGED <<textHandlers, createdStories>>
    /\ UNCHANGED <<storeVars, calls, stories, baseURLOK, cancelled, pc,
                   tickVars, cycleVars, hist, ticks, events, listVars,
                   clientCalls, handled, split>>

\* the callback new:cancel
CallbackCancel(telegramID) ==
    /\ pc = "idle"
    /\ telegramID \in DOMAIN newWizard
    /\ newWizard' = WizardDelete(newWizard, telegramID)
    /\ UNCHANGED <<textHandlers, createdStories, wizardSeq>>
    /\ UNCHANGED <<storeVars, calls, stories, baseURLOK, cancelled, pc,
                   tickVars, cycleVars, hist, ticks, events, listVars,
                   clientCalls, handled, split>>

\* strings.SplitN(raw, "|", 2)[0], trimmed
RECURSIVE BeforeBar(_)
BeforeBar(s) ==
    IF s = <<>> \/ Head(s) = "|" THEN <<>>
    ELSE <<Head(s)>> \o BeforeBar(Tail(s))
\* the subject splitSubjectDescription makes of the text of a message
Subject(text) == TrimSpace(BeforeBar(TrimSpace(text)))

\* ok && state.AwaitingText of the handler of text messages
Awaiting(table, telegramID) ==
    telegramID \in DOMAIN table /\ table[telegramID].AwaitingText

\* the handler of a text message that is no command, up to the unlock after
\* its read of newWizard; it returns when the sender has no state that
\* awaits a text, and when the text has no subject
TextRead(h, telegramID, text) ==
    /\ pc = "idle"
    /\ textHandlers[h].pc = "idle"
    /\ textHandlers' = [textHandlers EXCEPT ![h] =
          IF ~Awaiting(newWizard, telegramID)
          THEN [IdleHandler EXCEPT !.reply = "ignored"]
          ELSE IF Subject(text) = <<>>
               THEN [IdleHandler EXCEPT !.reply = "need_subject"]
          ELSE [pc |-> "read", from |-> telegramID,
                state |-> Ptr(newWizard[telegramID]), text |-> Ptr(text),
                reply |-> "none"]]
    /\ textHandlers' # textHandlers
    /\ UNCHANGED <<newWizard, createdStories, wizardSeq>>
    /\ UNCHANGED <<storeVars, calls, stories, baseURLOK, cancelled, pc,
                   tickVars, cycleVars, hist, ticks, events, listVars,
                   clientCalls, handled, split>>

\* the handler goes on: store.Get, taiga.NewClient and CreateUserStory with
\* the state it has read; on an error it answers and returns
TextCreate(h) ==
    /\ pc = "idle"
    /\ textHandlers[h].pc = "read"
    /\ LET me == textHandlers[h]
           state == me.state[1]
       IN  IF NotFound(links, me.from)
           THEN /\ textHandlers' = [textHandlers EXCEPT ![h] =
                       [IdleHandler EXCEPT !.reply = "no_link"]]
                /\ UNCHANGED <<createdStories, events>>
           ELSE IF ~baseURLOK
           THEN /\ textHandlers' = [textHandlers EXCEPT ![h] =
                       [IdleHandler EXCEPT !.reply = "client_error"]]
                /\ UNCHANGED <<createdStories, events>>
           ELSE \E ok \in Outcomes :
                   /\ Spend(ok)
                   /\ IF ok
                      THEN /\ createdStories' = Append(createdStories,
                                 [by |-> me.from, session |-> state.session,
                                  ProjectID |-> state.ProjectID,
                                  Assigned |-> state.AssigneeID,
                                  Subject |-> Subject(me.text[1]),
                                  awaiting |-> state.AwaitingText])
                           /\ textHandlers' = [textHandlers EXCEPT
                                                  ![h].pc = "created"]
                      ELSE /\ textHandlers' = [textHandlers EXCEPT ![h] =
                                 [IdleHandler EXCEPT !.reply = "create_failed"]]
                           /\ UNCHANGED createdStories
    /\ UNCHANGED <<newWizard, wizardSeq>>
    /\ UNCHANGED <<storeVars, calls, stories, baseURLOK, cancelled, pc,
                   tickVars, cycleVars, hist, ticks, listVars,
                   clientCalls, handled, split>>

\* after CreateUserStory has returned the story: the sender's state is
\* deleted under the lock, whichever state it is by now
TextDone(h) ==
    /\ pc = "idle"
    /\ textHandlers[h].pc = "created"
    /\ newWizard' = WizardDelete(newWizard, textHandlers[h].from)
    /\ textHandlers' = [textHandlers EXCEPT ![h] =
                            [IdleHandler EXCEPT !.reply = "created"]]
    /\ UNCHANGED <<createdStories, wizardSeq>>
    /\ UNCHANGED <<storeVars, calls, stories, baseURLOK, cancelled, pc,
                   tickVars, cycleVars, hist, ticks, events, listVars,
                   clientCalls, handled, split>>

\* the texts of the messages: a subject, and a description without one
WizardTexts == {<<"a">>, <<"|", "a">>}
\* the assignee of the callback data: 0 is "none"
AssigneeArgs == {0, TaigaUserOf(1)}

NextWizard ==
    \/ \E u \in Users : \E p \in Projects : CallbackProject(u, p)
    \/ \E u \in Users : \E p \in Projects : \E a \in AssigneeArgs :
          CallbackAssignee(u, p, a)
    \/ \E u \in Users : CallbackCancel(u)
    \/ \E h \in TextHandlers : \E u \in Users : \E text \in WizardTexts :
          TextRead(h, u, text)
    \/ \E h \in TextHandlers : TextCreate(h)
    \/ \E h \in TextHandlers : TextDone(h)

\* user 1 is linked, user 2 is not; nobody is in the wizard
InitWizard ==
    /\ disk = [path |-> Written(Encode(SeedStore)), tmp |-> NoFile]
    /\ links = SeedStore.links
    /\ mappings = SeedStore.mappings
    /\ usernames = SeedStore.usernames
    /\ baseURLOK = TRUE
    /\ InitProcess

SpecWizard == InitWizard /\ [][NextWizard]_vars

\* the listing holds a membership of the acting user with admin or owner
\* rights
Granting(h) ==
    /\ h.listing.ok
    /\ h.from \in DOMAIN h.pre.links
    /\ \E k \in 1..Len(h.listing.list) :
          /\ h.listing.list[k].UserID = h.pre.links[h.from].TaigaUserID
          /\ h.listing.list[k].IsAdmin \/ h.listing.list[k].IsOwner
\* the command got to its permission check and the lookup itself failed
LookupFailed(h) ==
    h.check # Nil /\ (h.from \notin DOMAIN h.pre.links \/ ~h.listing.ok)
\* the command wrote a link or a mapping, or listed the mappings
Acted(h) ==
    \/ h.post.links # h.pre.links
    \/ h.post.mappings # h.pre.mappings
    \/ h.shown # Nil

\* C31 as stated: /map, /mapid, /adminlinkid and /mappings act only when the
\* membership lookup returned a membership of the acting user with admin or
\* owner rights; when the lookup itself fails the update changes nothing in
\* the Store and is answered with the "permission check failed" message,
\* which is not the "not authorized" one.
C31_NoStoreMutation ==
    \A k \in 1..Len(handled) :
        LET h == handled[k]
        IN  /\ Acted(h) => Granting(h)
            /\ LookupFailed(h) =>
                  h.post = h.pre /\ h.reply = "check_failed"
            /\ h.reply = "not_admin" => ~LookupFailed(h)

\* C31: /map, /mapid, /adminlinkid and /mappings write a mapping, write a
\* link or list the mappings only when the membership lookup returned a
\* membership of the acting user with admin or owner rights; when the
\* lookup itself fails no link and no mapping is written, the only change
\* of the Store is the username of the sender that every update puts in the
\* index, and the answer is the "permission check failed" message, which
\* is not the "not authorized" one.
C31_AdminGating ==
    \A k \in 1..Len(handled) :
        LET h == handled[k]
        IN  /\ Acted(h) => Granting(h)
            /\ LookupFailed(h) =>
                  /\ h.post.links = h.pre.links
                  /\ h.post.mappings = h.pre.mappings
                  /\ \A x \in DOMAIN h.post.usernames :
                        \/ /\ x \in DOMAIN h.pre.usernames
                           /\ h.post.usernames[x] = h.pre.usernames[x]
                        \/ h.post.usernames[x] = h.from
                  /\ DOMAIN h.pre.usernames \subseteq DOMAIN h.post.usernames
                  /\ h.shown = Nil
                  /\ h.reply = "check_failed"
            /\ h.reply = "not_admin" => ~LookupFailed(h) /\ ~Granting(h)

\* an admin has set a mapping, and a command of a sender who is not linked
\* was answered with "permission check failed" after the sender's username
\* went into the index
C31_Witness ==
    /\ Len(handled) = 2
    /\ handled[1].cmd = "mapid" /\ handled[1].reply = "saved"
    /\ handled[1].post.mappings # handled[1].pre.mappings
    /\ handled[2].cmd = "map" /\ handled[2].reply = "check_failed"
    /\ handled[2].check = Ptr([admin |-> FALSE, err |-> "unlinked"])
    /\ handled[2].post.usernames # handled[2].pre.usernames

\* a link written by /adminlinkid, and a remote error in the lookup
C31_WitnessLink ==
    /\ Len(handled) = 2
    /\ handled[1].cmd = "adminlinkid" /\ handled[1].reply = "saved"
    /\ 2 \in DOMAIN handled[1].post.links
    /\ handled[2].cmd = "mappings" /\ handled[2].from = 2
    /\ handled[2].check = Ptr([admin |-> FALSE, err |-> "remote"])

RECURSIVE Pieces(_, _)
Pieces(text, cuts) ==
    IF cuts = <<>> THEN <<text>>
    ELSE <<SubSeq(text, 1, Head(cuts).cut)>>
         \o Pieces(SubSeq(text, Head(cuts).cut + 1, Len(text)), Tail(cuts))
RECURSIVE Concat(_)
Concat(ss) == IF ss = <<>> THEN <<>> ELSE Head(ss) \o Concat(Tail(ss))
\* the pieces trimmed, without those that are empty but for the last one
RECURSIVE Chunks(_)
Chunks(ps) ==
    IF Len(ps) = 0 THEN <<>>
    ELSE IF Len(ps) = 1 THEN IF Head(ps) = <<>> THEN <<>>
                             ELSE <<TrimSpace(Head(ps))>>
    ELSE (IF TrimSpace(Head(ps)) = <<>> THEN <<>>
          ELSE <<TrimSpace(Head(ps))>>) \o Chunks(Tail(ps))

\* C33: for every text and every positive limit splitMessage returns; the
\* chunks are the pieces its cuts make of the text, trimmed and in the order
\* of the text; no chunk is longer than limit; a text of at most limit
\* characters comes back as the one chunk, unchanged; and each cut is made
\* just behind the last newline among the first limit characters of the
\* text left, or at limit characters when there is no newline among them.
C33_SplitMessage ==
    split.called /\ split.limit > 0 =>
        /\ \A k \in 1..Len(split.parts) : Len(split.parts[k]) <= split.limit
        /\ Len(split.text) <= split.limit => split.parts = <<split.text>>
        /\ Len(split.text) > split.limit =>
              /\ Concat(Pieces(split.text, split.cuts)) = split.text
              /\ split.parts = Chunks(Pieces(split.text, split.cuts))
        /\ \A k \in 1..Len(split.cuts) :
              LET c == split.cuts[k]
                  nl == {i \in 1..split.limit : c.rest[i] = "\n"}
              IN  /\ Len(c.rest) > split.limit
                  /\ c.rest = IF k = 1 THEN split.text
                              ELSE SubSeq(split.cuts[k - 1].rest,
                                          split.cuts[k - 1].cut + 1,
                                          Len(split.cuts[k - 1].rest))
                  /\ IF nl = {} THEN c.cut = split.limit
                     ELSE c.cut \in nl /\ \A i \in nl : i <= c.cut

\* a text cut once behind the second of two newlines and once at the limit
C33_Witness ==
    /\ split.called
    /\ split.limit = 2
    /\ split.text = <<"\n", "\n", "a", "a", "a">>
    /\ split.parts = <<<<"a", "a">>, <<"a">>>>
    /\ Len(split.cuts) = 2

C34_WitnessCompared ==
    /\ AfterCompare
    /\ prev.valid
    /\ ~BaselineOnly(link)
    /\ emitted # EmptyBag

\* the fetches of the cycle that returned item i
FetchesOf(i) ==
    {k \in 1..Len(fetchLog) : fetchLog[k].ok /\ i \in DOMAIN fetchLog[k].result}
\* number of messages about item i in a bag of messages
CountItem(B, i) == Count(B, i, "status") + Count(B, i, "assignee")

\* C35: the work items of a cycle are the union by id of what its fetches
\* returned: an item returned by the assigned-to-me fetch and by fetches of
\* watched projects has one digest entry, and the cycle sends at most one
\* message about any work item.
C35_UnionByID ==
    AfterCompare =>
        /\ DOMAIN newDigests = FetchedItems
        /\ \A i \in Items :
              /\ CountItem(emitted, i) <= 1
              /\ CountItem(delivered, i) <= 1
              /\ i \notin FetchedItems => CountItem(emitted, i) = 0

\* an item that the assigned-to-me fetch and the fetch of a watched project
\* have both returned, and about which the cycle has sent its one message
C35_Witness ==
    /\ AfterCompare
    /\ \E i \in Items :
          /\ Cardinality(FetchesOf(i)) >= 2
          /\ \E k \in FetchesOf(i) : fetchLog[k].src = 0
          /\ CountItem(delivered, i) = 1

\* C36: every message of a user's cycle goes to the notify chat of the
\* user's link as the tick has listed it when one is set, else to the
\* user's own telegram id, and to no other chat.
C36_Destination ==
    AfterCompare =>
        /\ link = snap[link.TelegramID]
        /\ \A m \in BagToSet(emitted) \cup BagToSet(delivered) :
              IF link.NotifyChatID # Nil THEN m.chat = link.NotifyChatID[1]
              ELSE m.chat = link.TelegramID

\* a message delivered to the notify chat of the link
C36_Witness ==
    /\ AfterCompare
    /\ link.NotifyChatID = Ptr(GroupChat)
    /\ \E m \in BagToSet(delivered) : m.chat = GroupChat

\* a message delivered to the user's own chat
C36_WitnessOwn ==
    /\ AfterCompare
    /\ link.NotifyChatID = Nil
    /\ \E m \in BagToSet(delivered) : m.chat = link.TelegramID

\* a message delivered to the user's own chat, as the tick has listed the
\* link, after the user has set a notify chat
C36_WitnessStale ==
    /\ AfterCompare
    /\ link.NotifyChatID = Nil
    /\ link.TelegramID \in DOMAIN links
    /\ links[link.TelegramID].NotifyChatID = Ptr(GroupChat)
    /\ \E m \in BagToSet(delivered) : m.chat = link.TelegramID

\* C37: inside a tick the users are processed one after another: the next
\* link is taken only when the body of the loop has ended for the one
\* before; every fetch of a user's cycle, the assigned-to-me one and one per
\* watched project, has returned before the digests are compared; and
\* UpdateTaskState is called only after the comparison and its messages.
C37_Ordering ==
    [][/\ link' # link =>
             /\ pc \in {"loop", "stored"}
             /\ link'.TelegramID \notin visited
       /\ fetchLog' # fetchLog /\ fetchLog' # <<>> =>
             pc \in {"assigned", "projects"} /\ pc' = "projects"
       /\ pc # "update" /\ pc' = "update" =>
             /\ Len(fetchLog) = 1 + Len(link.WatchedProjects)
             /\ fetchLog' = fetchLog
       /\ emitted' # emitted /\ emitted' # EmptyBag =>
             pc = "projects" /\ pc' = "update"
       /\ ~wrote.called /\ wrote'.called =>
             /\ pc = "update"
             /\ newDigests = NewDigests(allStories)
             /\ emitted' = emitted]_vars

\* the second user of a tick has been processed after the first: its three
\* fetches have returned, a message was sent and the digests were written
C37_Witness ==
    /\ AfterStore
    /\ Cardinality(visited) = 2
    /\ Cardinality(updated) = 2
    /\ Len(fetchLog) = 3
    /\ emitted # EmptyBag
    /\ wrote.called

\* C38: a link that Delete has removed comes back only by a Save for that
\* user: a cycle of a tick that has listed the link calls UpdateTaskState
\* after the Delete, the call fails and leaves the links as they are.
C38_UnlinkNotUndone ==
    [][/\ \A u \in Users :
             u \notin DOMAIN links /\ u \in DOMAIN links' =>
                /\ pc' = pc
                /\ links' = LinksSave(links, NewLink(u, TaigaUserOf(u)))
       /\ ~wrote.called /\ wrote'.called
            /\ link.TelegramID \notin DOMAIN links =>
                /\ wrote'.err /\ ~wrote'.ok
                /\ links' = links
                /\ disk' = disk]_vars

\* a tick has listed the link of a user, the user was unlinked, and the
\* UpdateTaskState of the user's cycle has failed
C38_Witness ==
    /\ AfterStore
    /\ link.TelegramID \in DOMAIN snap
    /\ link.TelegramID \notin DOMAIN links
    /\ wrote.called /\ wrote.err /\ ~wrote.ok
    /\ DOMAIN newDigests # {}

\* the link of the user of the cycle is in the Store and no cycle has
\* written digests for it since it was saved
FreshLink ==
    /\ link.TelegramID \in DOMAIN links
    /\ ~hist[link.TelegramID].valid
\* the cycle works on a link listed before the save: it has read digests,
\* which the link has not had since
ReadBeforeSave == FreshLink /\ DOMAIN Last(link) # {}

\* C39: after Save has stored a link with an empty digest map, no message
\* is sent for the user and no digest map is written for it until a cycle
\* that has read the link after the Save has run, also when the Save happens
\* during a tick that has listed the user's previous link.
C39_FreshLinkBaseline ==
    [][/\ FreshLink /\ pc = "projects" /\ pc' = "update" =>
             emitted' = EmptyBag
       /\ ReadBeforeSave /\ pc = "update" /\ pc' = "stored" =>
             links' = links]_vars

\* the cycle of a tick that listed the previous link has sent a message and
\* has written its digests into the link saved since
C39_StaleCycle ==
    /\ AfterStore
    /\ link.TelegramID \in DOMAIN links
    /\ DOMAIN Last(link) # {}
    /\ snap[link.TelegramID] = link
    /\ links[link.TelegramID].NotifyChatID = Nil
    /\ links[link.TelegramID].WatchedProjects = <<>>
    /\ link.WatchedProjects # <<>>
    /\ emitted # EmptyBag
    /\ wrote.ok
    /\ Last(links[link.TelegramID]) = newDigests

\* C40: a text message creates a work item only for a sender whose wizard
\* state awaits a text, and no two work items are created from one session
\* of the wizard, also when text messages of one user are handled at the
\* same time.
C40_OneItemPerSession ==
    /\ \A k \in 1..Len(createdStories) : createdStories[k].awaiting
    /\ \A j, k \in 1..Len(createdStories) :
          createdStories[j].session = createdStories[k].session => j = k

\* the rest of C40: a handler that has created a story leaves no state of
\* the sender in the table when it returns, new:cancel leaves none, and a
\* handler whose creation failed leaves the table as it is.
C40_SessionLifecycle ==
    [][/\ \A h \in TextHandlers :
             /\ textHandlers'[h].reply = "created" /\ textHandlers[h].pc = "created"
                   => textHandlers[h].from \notin DOMAIN newWizard'
             /\ textHandlers'[h].reply = "create_failed"
                /\ textHandlers[h].pc = "read"
                   => newWizard' = newWizard
       /\ Len(createdStories') > Len(createdStories) =>
             \E h \in TextHandlers :
                /\ textHandlers[h].pc = "read"
                /\ textHandlers[h].state[1].AwaitingText]_vars

\* two handlers have read the state of one session and both have created
\* a story
C40_Race ==
    /\ Len(createdStories) = 2
    /\ createdStories[1].session = createdStories[2].session
    /\ createdStories[1].by = createdStories[2].by

====
